---- MODULE Spec2Model ----
(***************************************************************************)
(* A model of go-code-healer's background resilience pipeline:             *)
(*   - the bounded event queue and its overflow manager (queue.go),        *)
(*   - the capture hooks HandlePanic / RecoverAndHandle and the global     *)
(*     healer pointer (healer.go, panic.go),                               *)
(*   - the retry executor RetryManager.ExecuteWithRetry (queue.go).        *)
(* Every goroutine step that touches shared state is one action.           *)
(***************************************************************************)
EXTENDS Integers, Sequences, FiniteSets, Bags, TLC

\* ------------------------------------------------------------------ bounds
MaxQueueSize == 2       \* largest config.MaxQueueSize explored
MaxEvents == 4          \* number of PanicEvents created in one behaviour
NumThreads == 2         \* caller goroutines that enqueue or capture
NumHealers == 2         \* healers that Initialize may create
MaxCaptures == 3        \* events created by the capture hooks in one behaviour
MaxRetryAttempts == 4   \* largest RetryConfig.MaxAttempts explored
MaxThreshold == 2       \* largest CircuitBreakerConfig.FailureThreshold explored
MaxExecutes == 4        \* CircuitBreaker.Execute calls in one behaviour
MaxTime == 3            \* clock ticks in one behaviour
MaxWorkerCount == 2     \* largest config.WorkerCount explored
MaxPoolCalls == 5       \* WorkerPool.Start and Stop calls in one behaviour
MaxPipelineAttempts == 2  \* largest config.RetryAttempts explored for the pipeline
MaxProviderRetries == 2   \* largest ProviderManager.maxRetries explored

Threads == 1..NumThreads
Healers == 1..NumHealers
Nil == 0                \* the nil *Healer / no lock holder
Faults == {"faultA"}                 \* values passed to panic()
NoFault == "none"
NilDeref == "nil pointer dereference"  \* the runtime error of a nil dereference
NoErr == "nil"          \* the nil error

VARIABLES
  \* --- healer.go: the global pointer and the healers
  globalHealer,   \* var globalHealer *Healer
  created,        \* created[h]: Initialize has built healer h
  panicCapture,   \* panicCapture[h]: h.panicCapture != nil
  capacity,       \* capacity[h] = cap(h.errorQueue)
  errorQueue,     \* errorQueue[h]: buffered channel contents, oldest first
  poolState,      \* poolState[h]: "new" | "running" | "stopped"
  \* --- queue.go: QueueManager
  droppedCount,   \* droppedCount[h] = h.queueManager.droppedCount
  mu,             \* mu[h]: the thread holding h.queueManager.mu, or Nil
  \* --- caller goroutines
  tpc,            \* position of each thread
  tentry,         \* how the thread entered: "direct" | "rethrow" | "suppress"
  tfault,         \* the recovered panic value r
  ttarget,        \* healer whose queue manager the thread is calling
  tevent,         \* the event the thread is enqueueing
  tsteps,         \* steps the thread took inside the current EnqueueEvent
  tresult,        \* return value of the thread's last EnqueueEvent
  tcapture,       \* outcome of the capture attempt of the last hook call
  traised,        \* what the last hook call raised to its caller
  \* --- history
  nextId,         \* next fresh event id
  evicted,        \* evicted[h]: events removed from h's queue by overflow
  rejected,       \* rejected[h]: EnqueueEvent calls on h that returned false
  dequeued,       \* dequeued[h]: events taken by workers, in order
  sequential,     \* no two EnqueueEvent calls overlapped, no worker dequeued
  \* --- queue.go: RetryManager.ExecuteWithRetry
  cfg,            \* rm.config
  operation,      \* the operation name
  rpc,            \* position inside ExecuteWithRetry
  attempt,        \* loop variable attempt
  delay,          \* local variable delay
  lastErr,        \* local variable lastErr
  rresult,        \* the returned error
  outcomes,       \* results of the invocations of fn, in order
  waits,          \* delays handed to time.After, in order
  succeedsAt,     \* fn succeeds on this invocation (0: fn always fails)
  ctxDone,        \* ctx.Done() is closed
  parked,         \* the current select found no case ready and blocked
  wake,           \* what ended the current select: "none" | "timer" | "cancel"
  \* --- queue.go: CircuitBreaker and the goroutines calling Execute
  cbConfig,       \* cb.config: FailureThreshold, RecoveryTimeout
  cbState,        \* cb.state
  failures,       \* cb.failures
  lastFailTime,   \* cb.lastFailTime
  now,            \* the clock read by time.Now() and time.Since()
  cpc,            \* position of each caller inside Execute
  cerr,           \* the error fn returned in the caller's current call, if invoked
  cresult,        \* what the caller's last Execute returned
  \* --- history of the breaker
  probes,         \* callers let through by a half-open breaker, result not yet recorded
  streak,         \* failures recorded since the last recorded success or Reset
  executes,       \* Execute calls begun so far
  cbLast,         \* the last change of cb.state: from, to, cause
  everReset,      \* Reset has been called
  \* --- worker.go: WorkerPool, its workers and the goroutines calling Start/Stop
  workerCount,    \* wp.healer.config.WorkerCount
  wpWorkers,      \* wp.workers: the bag of the pool's worker objects
  wpCtxDone,      \* wp.ctx is cancelled
  wpMu,           \* the thread holding wp.mu, or Nil
  wgCount,        \* the counter of wp.wg
  doneClosed,     \* the done channel of the Stop in progress is closed
  orphans,        \* workers dropped from wp.workers whose loop has not exited
  kpc,            \* position of each thread inside WorkerPool.Stop
  poolLast,       \* the last Start / Stop that returned: op, path taken, error
  \* --- history of the pool
  poolCalls,      \* Start and Stop calls begun so far
  lateDequeue,    \* a worker dequeued an event although its stop signal was ready
  doubleClose,    \* some stop channel was closed twice
  \* --- worker.go: processEvent and the pipeline it runs, for one worker
  ppc,            \* position of the worker inside processEvent
  fix,            \* fixResponse of the pipeline attempt in progress
  gattempt,       \* loop variable attempt of the retry around CreatePullRequest
  status,         \* Status of each event
  aiOn,           \* healer.providerManager != nil
  gitOn,          \* healer.gitClient != nil
  \* --- history of the global pointer
  tfresh,         \* tfresh[t]: globalHealer was not written since t's recover()
  overridden,     \* globalHealer was written after the last Initialize returned
  \* --- healer.go: Initialize
  hconfig,        \* hconfig[h] = h.config, the configuration the healer was built with
  initResult,     \* what the last call of Initialize returned: healer, err
  \* --- healer.go: GetQueueStats, called by one goroutine on the healer
  spc,            \* position of the caller inside GetQueueStats
  stats,          \* the stats map being filled, then returned
  \* --- history of the pipeline, for the event being processed
  prCreated,      \* an invocation of CreatePullRequest returned nil for the event
  \* --- ai/provider_manager.go: GenerateFixWithFallback, one call
  pm,             \* the ProviderManager: len(pm.providers), pm.maxRetries
  fpc,            \* position inside GenerateFixWithFallback
  provider,       \* loop variable i, counted from 1
  fattempt,       \* loop variable attempt
  bestResponse,   \* local variable bestResponse
  fresult,        \* the returned response and error
  fctxDone,       \* ctx.Done() of the call's context is closed
  \* --- history of the call
  calls,          \* calls[p]: GenerateFix calls made on provider p
  freply,         \* what the last GenerateFix call returned
  firstWith       \* firstWith[c]: number of the first call answered with confidence c

hvars == <<globalHealer, created, panicCapture, capacity, errorQueue, poolState>>
qvars == <<droppedCount, mu>>
tvars == <<tpc, tentry, tfault, ttarget, tevent, tsteps, tresult, tcapture, traised>>
histvars == <<nextId, evicted, rejected, dequeued, sequential>>
rvars == <<cfg, operation, rpc, attempt, delay, lastErr, rresult, outcomes, waits,
           succeedsAt, ctxDone, parked, wake>>
cbvars == <<cbConfig, cbState, failures, lastFailTime, now, cpc, cerr, cresult,
            probes, streak, executes, cbLast, everReset>>
wpvars == <<workerCount, wpWorkers, wpCtxDone, wpMu, wgCount, doneClosed, orphans,
            kpc, poolLast, poolCalls, lateDequeue, doubleClose>>
pvars == <<ppc, fix, gattempt, status, aiOn, gitOn>>
ovars == <<tfresh, overridden>>
cvars == <<hconfig, initResult>>
svars == <<spc, stats>>
gvars == <<prCreated>>
fvars == <<pm, fpc, provider, fattempt, bestResponse, fresult, fctxDone, calls,
           freply, firstWith>>
xvars == <<ovars, cvars, svars, gvars, fvars>>
vars == <<hvars, qvars, tvars, histvars, rvars, cbvars, wpvars, pvars, xvars>>

\* ------------------------------------------------------------ channel ops
Min(a, b) == IF a <= b THEN a ELSE b

\* faulty variant: a send admitted on a full buffer
ChanHasRoomOffByOne(q, c) == Len(q) <= c
\* a non-blocking send on a buffered channel can proceed
ChanHasRoom(q, c) == Len(q) < c

\* faulty variant: the new element goes to the front of the buffer
ChanAfterSendFront(q, e) == <<e>> \o q
\* what a send leaves in the buffer: the new element is the last to be received
ChanAfterSend(q, e) == Append(q, e)

\* a non-blocking receive can proceed
ChanHasItem(q) == Len(q) > 0

\* faulty variant: the receive leaves the element in the buffer
ChanAfterRecvPeek(q) == q
\* faulty variant: the newest event is removed instead of the oldest
ChanAfterRecvNewest(q) == SubSeq(q, 1, Len(q) - 1)
\* what a receive leaves in the buffer: a channel hands out its oldest element
ChanAfterRecv(q) == Tail(q)

\* faulty variant: the deferred Unlock is missing
MuKept(m, h) == m
\* defer qm.mu.Unlock()
MuUnlocked(m, h) == [m EXCEPT ![h] = Nil]

\* ------------------------------------------------------------- call frames
EnqPcs == {"enq", "lock", "recv", "send", "retry"}
HookPcs == {"chk1", "chk2", "call"}
InEnqueue(t) == tpc[t] \in EnqPcs

\* event ids still to be handed out must cover the hook calls in flight
IdsLeft(max) == nextId + Cardinality({u \in Threads : tpc[u] \in HookPcs}) <= max

\* EnqueueEvent returns ok to its caller.  A direct caller is done.  Inside a
\* hook, CapturePanic returns too: HandlePanic then executes panic(r), and
\* RecoverAndHandle goes on to its logging statement.
Returned(t, ok, how) ==
  /\ tresult' = [tresult EXCEPT ![t] = IF ok THEN "true" ELSE "false"]
  /\ tcapture' = [tcapture EXCEPT ![t] = how]
  /\ rejected' = IF ok THEN rejected
                 ELSE [rejected EXCEPT ![ttarget[t]] = @ \cup {tevent[t]}]
  /\ tsteps' = [tsteps EXCEPT ![t] = @ + 1]
  /\ ttarget' = [ttarget EXCEPT ![t] = Nil]
  /\ tevent' = [tevent EXCEPT ![t] = 0]
  /\ IF tentry[t] = "suppress"
       THEN tpc' = [tpc EXCEPT ![t] = "log1"] /\ UNCHANGED traised
       ELSE /\ tpc' = [tpc EXCEPT ![t] = "idle"]
            /\ traised' = [traised EXCEPT ![t] =
                             IF tentry[t] = "rethrow" THEN tfault[t] ELSE NoFault]

\* the thread moves on inside EnqueueEvent
Goes(t, pc) ==
  /\ tpc' = [tpc EXCEPT ![t] = pc]
  /\ tsteps' = [tsteps EXCEPT ![t] = @ + 1]
  /\ UNCHANGED <<tresult, tcapture, traised, rejected, ttarget, tevent>>

\* a call of EnqueueEvent begins: it overlaps when another one is in progress
BeginEnqueue(t, h) ==
  /\ ttarget' = [ttarget EXCEPT ![t] = h]
  /\ tevent' = [tevent EXCEPT ![t] = nextId]
  /\ nextId' = nextId + 1
  /\ tsteps' = [tsteps EXCEPT ![t] = 0]
  /\ tpc' = [tpc EXCEPT ![t] = "enq"]
  /\ sequential' = (sequential /\ \A u \in Threads \ {t} : ~InEnqueue(u))

\* ----------------------------------------------------- QueueManager (queue.go)
\* healer.queueManager.EnqueueEvent(event), called directly as the tests do
CallEnqueueEvent(t, h) ==
  /\ tpc[t] = "idle"
  /\ created[h]
  /\ IdsLeft(MaxEvents)
  /\ BeginEnqueue(t, h)
  /\ tentry' = [tentry EXCEPT ![t] = "direct"]
  /\ tfault' = [tfault EXCEPT ![t] = NoFault]
  /\ tresult' = [tresult EXCEPT ![t] = "none"]
  /\ tcapture' = [tcapture EXCEPT ![t] = "none"]
  /\ traised' = [traised EXCEPT ![t] = NoFault]
  /\ UNCHANGED <<hvars, qvars, evicted, rejected, dequeued, rvars, pvars, xvars, cbvars, wpvars>>

\* EnqueueEvent: select { case errorQueue <- event: ... default: overflow }
EnqueueEvent(t) ==
  /\ tpc[t] = "enq"
  /\ LET h == ttarget[t] IN
       IF ChanHasRoom(errorQueue[h], capacity[h])
         THEN /\ errorQueue' = [errorQueue EXCEPT ![h] = ChanAfterSend(@, tevent[t])]
              /\ Returned(t, TRUE, "accepted")
         ELSE /\ Goes(t, "lock")
              /\ UNCHANGED errorQueue
  /\ UNCHANGED <<globalHealer, created, panicCapture, capacity, poolState, qvars,
                 tentry, tfault, nextId, evicted, dequeued,
                 sequential, rvars, pvars, xvars, cbvars, wpvars>>

\* handleQueueOverflow: qm.mu.Lock()
OverflowLock(t) ==
  /\ tpc[t] = "lock"
  /\ mu[ttarget[t]] = Nil
  /\ mu' = [mu EXCEPT ![ttarget[t]] = t]
  /\ Goes(t, "recv")
  /\ UNCHANGED <<hvars, droppedCount, tentry, tfault, nextId,
                 evicted, dequeued, sequential, rvars, pvars, xvars, cbvars, wpvars>>

\* handleQueueOverflow: select { case oldEvent := <-errorQueue: droppedCount++
\*                             default: (retry) }
OverflowRecv(t) ==
  /\ tpc[t] = "recv"
  /\ LET h == ttarget[t] IN
       IF ChanHasItem(errorQueue[h])
         THEN /\ errorQueue' = [errorQueue EXCEPT ![h] = ChanAfterRecv(@)]
              /\ droppedCount' = [droppedCount EXCEPT ![h] = @ + 1]
              /\ evicted' = [evicted EXCEPT ![h] = @ \cup {Head(errorQueue[h])}]
              /\ Goes(t, "send")
         ELSE /\ Goes(t, "retry")
              /\ UNCHANGED <<errorQueue, droppedCount, evicted>>
  /\ UNCHANGED <<globalHealer, created, panicCapture, capacity, poolState, mu,
                 tentry, tfault, nextId, dequeued, sequential,
                 rvars, pvars, xvars, cbvars, wpvars>>

\* after dropping the oldest: select { case errorQueue <- newEvent: return true
\*                                     default: return false }
OverflowSend(t) ==
  /\ tpc[t] = "send"
  /\ LET h == ttarget[t] IN
       /\ IF ChanHasRoom(errorQueue[h], capacity[h])
            THEN /\ errorQueue' = [errorQueue EXCEPT ![h] = ChanAfterSend(@, tevent[t])]
                 /\ Returned(t, TRUE, "evicted")
            ELSE /\ Returned(t, FALSE, "rejected")
                 /\ UNCHANGED errorQueue
       /\ mu' = MuUnlocked(mu, h)
  /\ UNCHANGED <<globalHealer, created, panicCapture, capacity, poolState,
                 droppedCount, tentry, tfault, nextId, evicted,
                 dequeued, sequential, rvars, pvars, xvars, cbvars, wpvars>>

\* the queue was found empty: select { case errorQueue <- newEvent: return true
\*                                     default: droppedCount++; return false }
OverflowRetry(t) ==
  /\ tpc[t] = "retry"
  /\ LET h == ttarget[t] IN
       /\ IF ChanHasRoom(errorQueue[h], capacity[h])
            THEN /\ errorQueue' = [errorQueue EXCEPT ![h] = ChanAfterSend(@, tevent[t])]
                 /\ Returned(t, TRUE, "accepted")
                 /\ UNCHANGED droppedCount
            ELSE /\ droppedCount' = [droppedCount EXCEPT ![h] = @ + 1]
                 /\ Returned(t, FALSE, "rejected")
                 /\ UNCHANGED errorQueue
       /\ mu' = MuUnlocked(mu, h)
  /\ UNCHANGED <<globalHealer, created, panicCapture, capacity, poolState,
                 tentry, tfault, nextId, evicted, dequeued,
                 sequential, rvars, pvars, xvars, cbvars, wpvars>>

\* GetDroppedCount: RLock, read, RUnlock (readable while no writer holds mu)
GetDroppedCount(h) == droppedCount[h]

\* ------------------------------------------------------ consumers (worker.go)
\* Healer.Start -> WorkerPool.Start: the worker loops begin
PoolStart(h) ==
  /\ created[h]
  /\ poolState[h] = "new"
  /\ poolState' = [poolState EXCEPT ![h] = "running"]
  /\ UNCHANGED <<globalHealer, created, panicCapture, capacity, errorQueue, qvars,
                 tvars, histvars, rvars, pvars, xvars, cbvars, wpvars>>

\* Healer.Stop -> WorkerPool.Stop returned: the worker loops have exited
PoolStop(h) ==
  /\ poolState[h] = "running"
  /\ poolState' = [poolState EXCEPT ![h] = "stopped"]
  /\ UNCHANGED <<globalHealer, created, panicCapture, capacity, errorQueue, qvars,
                 tvars, histvars, rvars, pvars, xvars, cbvars, wpvars>>

\* BackgroundWorker.run: case event := <-w.healer.errorQueue
WorkerDequeue(h) ==
  /\ poolState[h] = "running"
  /\ ChanHasItem(errorQueue[h])
  /\ errorQueue' = [errorQueue EXCEPT ![h] = ChanAfterRecv(@)]
  /\ dequeued' = [dequeued EXCEPT ![h] = Append(@, Head(errorQueue[h]))]
  /\ sequential' = FALSE
  /\ UNCHANGED <<globalHealer, created, panicCapture, capacity, poolState, qvars,
                 tvars, nextId, evicted, rejected, rvars, pvars, xvars, cbvars, wpvars>>

\* ------------------------------------------- Orchestrator (healer.go, panic.go)
\* globalHealer = healer: every hook call in progress has now seen a write
\* since its recover(); explicit tells a direct SetGlobalHealer from the one
\* that ends Initialize
PointerWritten(explicit) ==
  /\ tfresh' = [t \in Threads |-> FALSE]
  /\ overridden' = explicit

\* Config.ApplyDefaults: a zero MaxQueueSize, WorkerCount or RetryAttempts is
\* replaced by its default
DefaultMaxQueueSize == 100
DefaultWorkerCount == 2
DefaultRetryAttempts == 3

ApplyDefaultsSkipped(c) == c

ApplyDefaults(c) ==
  [c EXCEPT !.MaxQueueSize = IF @ = 0 THEN DefaultMaxQueueSize ELSE @,
            !.WorkerCount = IF @ = 0 THEN DefaultWorkerCount ELSE @,
            !.RetryAttempts = IF @ = 0 THEN DefaultRetryAttempts ELSE @]

\* Config.Validate: the numeric checks; KeysPresent stands for the checks of
\* the required keys, tokens, log level and MCP settings
ConfigError == "configuration validation failed"

Validate(c) ==
  IF \/ ~c.KeysPresent
     \/ c.MaxQueueSize <= 0
     \/ c.WorkerCount <= 0
     \/ c.RetryAttempts < 0
    THEN ConfigError
    ELSE NoErr

\* Config.ValidateComplete: Validate, then the upper limits
MaxQueueSizeLimit == 10000
WorkerCountLimit == 50
RetryAttemptsLimit == 10

ValidateComplete(c) ==
  IF \/ Validate(c) # NoErr
     \/ c.MaxQueueSize > MaxQueueSizeLimit
     \/ c.WorkerCount > WorkerCountLimit
     \/ c.RetryAttempts > RetryAttemptsLimit
    THEN ConfigError
    ELSE NoErr

\* the configurations handed to Initialize
Configs ==
  [MaxQueueSize : {-1, 0, 1, MaxQueueSizeLimit + 1},
   WorkerCount : {-1, 0, 1, WorkerCountLimit + 1},
   RetryAttempts : {-1, 0, 1, RetryAttemptsLimit + 1},
   KeysPresent : BOOLEAN]

NoConfig == [MaxQueueSize |-> 0, WorkerCount |-> 0, RetryAttempts |-> 0,
             KeysPresent |-> FALSE]

\* a configuration that sets the queue size and leaves the rest to the defaults
QueueOnly(c) == [MaxQueueSize |-> c, WorkerCount |-> 0, RetryAttempts |-> 0,
                 KeysPresent |-> TRUE]

\* Initialize(config): applies the defaults and validates; on an error it
\* returns (nil, err) before anything is built; otherwise it builds a healer
\* with a queue of config.MaxQueueSize and ends with SetGlobalHealer(healer);
\* healers are numbered as they are created
InitializeConfig(h, config) ==
  /\ ~created[h]
  /\ \A g \in Healers : g < h => created[g]
  /\ LET c == ApplyDefaults(config) IN
       IF ValidateComplete(c) # NoErr
         THEN /\ initResult' = [healer |-> Nil, err |-> ValidateComplete(c), given |-> config]
              /\ UNCHANGED <<created, capacity, globalHealer, hconfig, ovars>>
         ELSE /\ created' = [created EXCEPT ![h] = TRUE]
              /\ capacity' = [capacity EXCEPT ![h] = c.MaxQueueSize]
              /\ hconfig' = [hconfig EXCEPT ![h] = c]
              /\ globalHealer' = h
              /\ PointerWritten(FALSE)
              /\ initResult' = [healer |-> h, err |-> NoErr, given |-> config]
  /\ UNCHANGED <<panicCapture, errorQueue, poolState, qvars, tvars, histvars, rvars, pvars, svars, gvars, fvars, cbvars, wpvars>>

\* Initialize with a valid configuration of queue size c
Initialize(h, c) == InitializeConfig(h, QueueOnly(c))

\* GetQueueStats on the healer h, statement by statement; each statement
\* evaluates cap(h.errorQueue) and len(h.errorQueue) when it runs
NoStats == [queue_capacity |-> 0, queue_length |-> 0, queue_available |-> 0]

StatsUnchanged ==
  UNCHANGED <<hvars, qvars, tvars, histvars, rvars, pvars, ovars, cvars, gvars, fvars, cbvars, wpvars>>

\* stats["queue_capacity"] = cap(h.errorQueue)
StatsCapacity(h) ==
  /\ spc \in {"idle", "done"}
  /\ created[h]
  /\ stats' = [NoStats EXCEPT !.queue_capacity = capacity[h]]
  /\ spc' = "length"
  /\ StatsUnchanged

\* stats["queue_length"] = len(h.errorQueue)
StatsLength(h) ==
  /\ spc = "length"
  /\ stats' = [stats EXCEPT !.queue_length = Len(errorQueue[h])]
  /\ spc' = "available"
  /\ StatsUnchanged

\* stats["queue_available"] = cap(h.errorQueue) - len(h.errorQueue); the
\* remaining entries do not concern the queue, and the map is returned
StatsAvailable(h) ==
  /\ spc = "available"
  /\ stats' = [stats EXCEPT !.queue_available = capacity[h] - Len(errorQueue[h])]
  /\ spc' = "done"
  /\ StatsUnchanged

\* h.InstallPanicHandler(): if h.panicCapture == nil { h.panicCapture = New... }
InstallPanicHandler(h) ==
  /\ created[h]
  /\ ~panicCapture[h]
  /\ panicCapture' = [panicCapture EXCEPT ![h] = TRUE]
  /\ UNCHANGED <<globalHealer, created, capacity, errorQueue, poolState, qvars,
                 tvars, histvars, rvars, pvars, xvars, cbvars, wpvars>>

\* SetGlobalHealer(healer): globalHealer = healer, with no synchronisation
SetGlobalHealer(h) ==
  /\ h # Nil => created[h]
  /\ globalHealer # h
  /\ globalHealer' = h
  /\ PointerWritten(TRUE)
  /\ UNCHANGED <<created, panicCapture, capacity, errorQueue, poolState, qvars,
                 tvars, histvars, rvars, pvars, cvars, svars, gvars, fvars, cbvars, wpvars>>

\* h.RestorePanicHandler(): SetGlobalHealer(nil), on any healer instance
RestorePanicHandler ==
  /\ \E h \in Healers : created[h]
  /\ globalHealer # Nil
  /\ globalHealer' = Nil
  /\ PointerWritten(TRUE)
  /\ UNCHANGED <<created, panicCapture, capacity, errorQueue, poolState, qvars,
                 tvars, histvars, rvars, pvars, cvars, svars, gvars, fvars, cbvars, wpvars>>

\* the hook is left without an enqueue: HandlePanic executes panic(r),
\* RecoverAndHandle goes on to its logging statement
SkipCapture(t, how) ==
  /\ tcapture' = [tcapture EXCEPT ![t] = how]
  /\ IF tentry[t] = "suppress"
       THEN tpc' = [tpc EXCEPT ![t] = "log1"] /\ UNCHANGED traised
       ELSE /\ tpc' = [tpc EXCEPT ![t] = "idle"]
            /\ traised' = [traised EXCEPT ![t] = tfault[t]]

\* a nil dereference inside the deferred hook: a new runtime panic reaches
\* the caller
Crash(t) ==
  /\ tpc' = [tpc EXCEPT ![t] = "idle"]
  /\ traised' = [traised EXCEPT ![t] = NilDeref]
  /\ tcapture' = [tcapture EXCEPT ![t] = "crashed"]

\* the hook returns normally to its caller
ReturnNormally(t) ==
  /\ tpc' = [tpc EXCEPT ![t] = "idle"]
  /\ traised' = [traised EXCEPT ![t] = NoFault]
  /\ UNCHANGED tcapture

\* CapturePanic on g.panicCapture enqueues through pc.healer, the healer that
\* built the capture in its InstallPanicHandler: NewPanicCapture(h, h.logger)
CaptureTargetFirst(g) == 1

CaptureTarget(g) == g

\* a function that deferred HandlePanic ("rethrow") or RecoverAndHandle
\* ("suppress") panics with value r:  if r := recover(); r != nil {
HookRecover(t, kind, r) ==
  /\ tpc[t] = "idle"
  /\ IdsLeft(MaxCaptures)
  /\ tpc' = [tpc EXCEPT ![t] = "chk1"]
  /\ tentry' = [tentry EXCEPT ![t] = kind]
  /\ tfault' = [tfault EXCEPT ![t] = r]
  /\ tresult' = [tresult EXCEPT ![t] = "none"]
  /\ tcapture' = [tcapture EXCEPT ![t] = "none"]
  /\ traised' = [traised EXCEPT ![t] = NoFault]
  /\ tfresh' = [tfresh EXCEPT ![t] = TRUE]
  /\ UNCHANGED <<hvars, qvars, ttarget, tevent, tsteps, histvars, rvars, pvars, overridden, cvars, svars, gvars, fvars, cbvars, wpvars>>

\* if globalHealer != nil &&
HookCheckHealer(t) ==
  /\ tpc[t] = "chk1"
  /\ IF globalHealer = Nil
       THEN SkipCapture(t, "noHealer")
       ELSE tpc' = [tpc EXCEPT ![t] = "chk2"] /\ UNCHANGED <<tcapture, traised>>
  /\ UNCHANGED <<hvars, qvars, tentry, tfault, ttarget, tevent, tsteps, tresult,
                 histvars, rvars, pvars, xvars, cbvars, wpvars>>

\* ... globalHealer.panicCapture != nil {     (globalHealer is read again)
HookCheckCapture(t) ==
  /\ tpc[t] = "chk2"
  /\ IF globalHealer = Nil
       THEN Crash(t)
       ELSE IF ~panicCapture[globalHealer]
              THEN SkipCapture(t, "noHandler")
              ELSE tpc' = [tpc EXCEPT ![t] = "call"] /\ UNCHANGED <<tcapture, traised>>
  /\ UNCHANGED <<hvars, qvars, tentry, tfault, ttarget, tevent, tsteps, tresult,
                 histvars, rvars, pvars, xvars, cbvars, wpvars>>

\* globalHealer.panicCapture.CapturePanic(r)  (globalHealer is read a third
\* time): CapturePanic builds the event and calls
\* pc.healer.GetQueueManager().EnqueueEvent(*event); on a nil receiver it
\* dereferences pc.logger
HookCapturePanic(t) ==
  /\ tpc[t] = "call"
  /\ IF globalHealer = Nil \/ ~panicCapture[globalHealer]
       THEN /\ Crash(t)
            /\ UNCHANGED <<ttarget, tevent, tsteps, nextId, sequential>>
       ELSE /\ BeginEnqueue(t, CaptureTarget(globalHealer))
            /\ UNCHANGED <<tcapture, traised>>
  /\ UNCHANGED <<hvars, qvars, tentry, tfault, tresult, evicted, rejected,
                 dequeued, rvars, pvars, xvars, cbvars, wpvars>>

\* RecoverAndHandle: if globalHealer != nil &&
LogCheckHealer(t) ==
  /\ tpc[t] = "log1"
  /\ IF globalHealer = Nil
       THEN ReturnNormally(t)
       ELSE tpc' = [tpc EXCEPT ![t] = "log2"] /\ UNCHANGED <<tcapture, traised>>
  /\ UNCHANGED <<hvars, qvars, tentry, tfault, ttarget, tevent, tsteps, tresult,
                 histvars, rvars, pvars, xvars, cbvars, wpvars>>

\* ... globalHealer.logger != nil {   (every healer has a logger)
LogCheckLogger(t) ==
  /\ tpc[t] = "log2"
  /\ IF globalHealer = Nil
       THEN Crash(t)
       ELSE tpc' = [tpc EXCEPT ![t] = "log3"] /\ UNCHANGED <<tcapture, traised>>
  /\ UNCHANGED <<hvars, qvars, tentry, tfault, ttarget, tevent, tsteps, tresult,
                 histvars, rvars, pvars, xvars, cbvars, wpvars>>

\* globalHealer.logger.Error("Recovered from panic: %v", r) }
LogRecovered(t) ==
  /\ tpc[t] = "log3"
  /\ IF globalHealer = Nil THEN Crash(t) ELSE ReturnNormally(t)
  /\ UNCHANGED <<hvars, qvars, tentry, tfault, ttarget, tevent, tsteps, tresult,
                 histvars, rvars, pvars, xvars, cbvars, wpvars>>

\* ------------------------------------------------------ RetryManager (queue.go)
Operations == {"process-event", "git-pr"}
Errs == {"errA", "errB"}               \* errors fn may return
CtxErr == "context canceled"           \* ctx.Err() after cancellation
Durations == {-1, 0, 1, 2, 5}          \* time.Duration values, in ticks
MaxDelays == {0, 3, 4}
Factors == {<<1, 2>>, <<1, 1>>, <<3, 2>>, <<2, 1>>}  \* BackoffFactor as num/den

RetryConfigs ==
  [MaxAttempts : 1..MaxRetryAttempts, InitialDelay : Durations,
   MaxDelay : MaxDelays, BackoffFactor : Factors]

\* the error values ExecuteWithRetry returns
Pending == [kind |-> "pending", op |-> "", attempts |-> 0, wraps |-> NoErr]
NilResult == [kind |-> "nil", op |-> "", attempts |-> 0, wraps |-> NoErr]
\* fmt.Errorf("%s failed after %d attempts, last error: %w", ...)
FailedAfter(op, n, err) == [kind |-> "failed", op |-> op, attempts |-> n, wraps |-> err]
\* fmt.Errorf("%s cancelled: %w", operation, ctx.Err())
Cancelled(op) == [kind |-> "cancelled", op |-> op, attempts |-> 0, wraps |-> CtxErr]

\* time.Duration(x) of a float64 x truncates toward zero
TruncDiv(a, b) == IF a >= 0 THEN a \div b ELSE -((-a) \div b)

\* faulty variant: the delay is not capped at MaxDelay
NextDelayUncapped(d) == TruncDiv(d * cfg.BackoffFactor[1], cfg.BackoffFactor[2])
\* delay = time.Duration(float64(delay) * BackoffFactor); capped at MaxDelay
NextDelay(d) ==
  LET scaled == TruncDiv(d * cfg.BackoffFactor[1], cfg.BackoffFactor[2])
  IN  IF scaled > cfg.MaxDelay THEN cfg.MaxDelay ELSE scaled

\* faulty variant: the loop gives up one attempt early
IsLastAttemptEarly(a) == a >= cfg.MaxAttempts - 1
\* if attempt == rm.config.MaxAttempts { break }
IsLastAttempt(a) == a = cfg.MaxAttempts

\* faulty variant: a success does not end the loop
StopsOnSuccessNever(err) == FALSE
\* if err == nil { return nil }
StopsOnSuccess(err) == err = NoErr

\* faulty variant: the select has no ctx.Done() case
WakeOnCancelIgnored(w, blocked) == w
\* a goroutine blocked in the select is woken by the first case that becomes
\* ready; closing ctx.Done() chooses the cancellation case
WakeOnCancel(w, blocked) == IF blocked /\ w = "none" THEN "cancel" ELSE w

\* what the n-th invocation of fn returns
FnResults(n) == IF n = succeedsAt THEN {NoErr} ELSE Errs

\* one loop iteration up to the select: err := fn(); return nil on success;
\* lastErr = err; break after the last attempt
RetryAttempt ==
  /\ rpc = "attempt"
  /\ \E err \in FnResults(Len(outcomes) + 1) :
       /\ outcomes' = Append(outcomes, err)
       /\ IF StopsOnSuccess(err)
            THEN /\ rpc' = "done"
                 /\ rresult' = NilResult
                 /\ UNCHANGED lastErr
            ELSE /\ lastErr' = err
                 /\ IF IsLastAttempt(attempt)
                      THEN /\ rpc' = "done"
                           /\ rresult' = FailedAfter(operation, cfg.MaxAttempts, err)
                      ELSE /\ rpc' = "select"
                           /\ UNCHANGED rresult
  /\ UNCHANGED <<pvars, xvars, cbvars, wpvars, hvars, qvars, tvars, histvars, cfg, operation, attempt, delay,
                 waits, succeedsAt, ctxDone, parked, wake>>

\* select { case <-ctx.Done(): ... case <-time.After(delay): ... } is entered:
\* a closed ctx.Done() is ready; an expired timer (delay <= 0) may be ready too
RetrySelect ==
  /\ rpc = "select"
  /\ waits' = Append(waits, delay)
  /\ rpc' = "wait"
  /\ \/ ctxDone /\ wake' = "cancel" /\ parked' = FALSE
     \/ delay <= 0 /\ wake' = "timer" /\ parked' = FALSE
     \/ ~ctxDone /\ wake' = "none" /\ parked' = TRUE
  /\ UNCHANGED <<pvars, xvars, cbvars, wpvars, hvars, qvars, tvars, histvars, cfg, operation, attempt, delay,
                 lastErr, rresult, outcomes, succeedsAt, ctxDone>>

\* the timer of time.After(delay) expires while the goroutine is blocked
TimerFires ==
  /\ rpc = "wait"
  /\ wake = "none"
  /\ wake' = "timer"
  /\ UNCHANGED <<pvars, xvars, cbvars, wpvars, hvars, qvars, tvars, histvars, cfg, operation, rpc, attempt,
                 delay, lastErr, rresult, outcomes, waits, succeedsAt, ctxDone,
                 parked>>

\* the governing context is cancelled (Healer.Stop, a phase timeout)
CancelContext ==
  /\ ~ctxDone
  /\ rpc # "done"
  /\ ctxDone' = TRUE
  /\ wake' = WakeOnCancel(wake, rpc = "wait")
  /\ UNCHANGED <<pvars, xvars, cbvars, wpvars, hvars, qvars, tvars, histvars, cfg, operation, rpc, attempt,
                 delay, lastErr, rresult, outcomes, waits, succeedsAt, parked>>

\* the select returns: the cancellation case returns the cancellation error,
\* the timer case computes the next delay and starts the next iteration
RetryWake ==
  /\ rpc = "wait"
  /\ wake # "none"
  /\ IF wake = "cancel"
       THEN /\ rpc' = "done"
            /\ rresult' = Cancelled(operation)
            /\ UNCHANGED <<delay, attempt>>
       ELSE /\ delay' = NextDelay(delay)
            /\ attempt' = attempt + 1
            /\ rpc' = "attempt"
            /\ UNCHANGED rresult
  /\ wake' = "none"
  /\ UNCHANGED <<pvars, xvars, cbvars, wpvars, hvars, qvars, tvars, histvars, cfg, operation, lastErr, outcomes,
                 waits, succeedsAt, ctxDone, parked>>

\* --------------------------------------------------- CircuitBreaker (queue.go)
Closed == "CLOSED"
Open == "OPEN"
HalfOpen == "HALF_OPEN"
ZeroTime == -1000                      \* the zero time.Time: long before any clock reading
Thresholds == 1..MaxThreshold          \* CircuitBreakerConfig.FailureThreshold
RecoveryTimeouts == {0, 1}             \* CircuitBreakerConfig.RecoveryTimeout, in ticks
OpenError == "circuit breaker is OPEN" \* fmt.Errorf("circuit breaker is OPEN for %s", operation)
NotInvoked == "not invoked"            \* fn has not run in the caller's current call

\* faulty variant: the comparison is reversed
RecoveryElapsedReversed(t) == now - t < cbConfig.RecoveryTimeout
\* time.Since(cb.lastFailTime) > cb.config.RecoveryTimeout
RecoveryElapsed(t) == now - t > cbConfig.RecoveryTimeout

\* faulty variant: the write lock is taken without the double-check
DoubleCheckedSkipped(s) == HalfOpen
\* canExecute under the write lock: the state after the double-check
DoubleChecked(s) ==
  IF s = Open /\ RecoveryElapsed(lastFailTime) THEN HalfOpen ELSE s

\* faulty variant: whoever took the upgrade path is let through
AllowedAfterUpgradeAlways(s) == TRUE
\* canExecute: return cb.state == CircuitBreakerHalfOpen
AllowedAfterUpgrade(s) == s = HalfOpen

\* faulty variant: a success never clears the counter
FailuresAfterKept(s, n, err) == IF err # NoErr THEN n + 1 ELSE n
\* recordResult: cb.failures after the result err is recorded in state s
FailuresAfter(s, n, err) ==
  IF err # NoErr THEN n + 1
  ELSE IF s \in {HalfOpen, Closed} THEN 0 ELSE n

\* faulty variant: the breaker opens one failure late
StateAfterOpensLate(s, n, err) ==
  IF err # NoErr
    THEN IF n + 1 > cbConfig.FailureThreshold THEN Open
         ELSE IF s = HalfOpen THEN Open ELSE s
    ELSE IF s = HalfOpen THEN Closed ELSE s
\* faulty variant: a successful probe leaves the breaker half-open
StateAfterNoClose(s, n, err) ==
  IF err # NoErr
    THEN IF n + 1 >= cbConfig.FailureThreshold THEN Open
         ELSE IF s = HalfOpen THEN Open ELSE s
    ELSE s
\* recordResult: cb.state after the result err is recorded in state s with
\* cb.failures = n beforehand
StateAfter(s, n, err) ==
  IF err # NoErr
    THEN IF n + 1 >= cbConfig.FailureThreshold THEN Open
         ELSE IF s = HalfOpen THEN Open ELSE s
    ELSE IF s = HalfOpen THEN Closed ELSE s

\* history: the last change of cb.state and what caused it
NoChange == [from |-> Closed, to |-> Closed, cause |-> "none"]
Changed(s, s2, why) ==
  IF s2 # s THEN [from |-> s, to |-> s2, cause |-> why] ELSE cbLast

\* GetState / GetFailureCount
GetState == cbState
GetFailureCount == failures

\* the caller's Execute returns; fn was or was not invoked
ExecuteReturns(t, res) ==
  /\ cpc' = [cpc EXCEPT ![t] = "idle"]
  /\ cresult' = [cresult EXCEPT ![t] = res]

\* Execute(ctx, operation, fn) is called
CallExecute(t) ==
  /\ cpc[t] = "idle"
  /\ executes < MaxExecutes
  /\ executes' = executes + 1
  /\ cpc' = [cpc EXCEPT ![t] = "canExecute"]
  /\ cresult' = [cresult EXCEPT ![t] = "pending"]
  /\ UNCHANGED <<cbConfig, cbState, failures, lastFailTime, now, cerr, probes,
                 streak>>
  /\ UNCHANGED <<cbLast, everReset>>
  /\ UNCHANGED <<hvars, qvars, tvars, histvars, rvars, pvars, xvars, wpvars>>

\* canExecute under the read lock: the switch on cb.state
CanExecute(t) ==
  /\ cpc[t] = "canExecute"
  /\ IF cbState = Open
       THEN IF RecoveryElapsed(lastFailTime)
              THEN \* cb.mu.RUnlock(); the caller goes for the write lock
                   /\ cpc' = [cpc EXCEPT ![t] = "upgrade"]
                   /\ UNCHANGED <<cresult, probes>>
              ELSE /\ ExecuteReturns(t, OpenError)
                   /\ UNCHANGED probes
       ELSE /\ cpc' = [cpc EXCEPT ![t] = "fn"]
            /\ probes' = IF cbState = HalfOpen THEN probes \cup {t} ELSE probes
            /\ UNCHANGED cresult
  /\ UNCHANGED <<cbConfig, cbState, failures, lastFailTime, now, cerr,
                 streak, executes>>
  /\ UNCHANGED <<cbLast, everReset>>
  /\ UNCHANGED <<hvars, qvars, tvars, histvars, rvars, pvars, xvars, wpvars>>

\* canExecute under the write lock: double-check, move to half-open, unlock
CanExecuteUpgrade(t) ==
  /\ cpc[t] = "upgrade"
  /\ cbState' = DoubleChecked(cbState)
  /\ cbLast' = Changed(cbState, DoubleChecked(cbState), "timeout")
  /\ UNCHANGED everReset
  /\ cpc' = [cpc EXCEPT ![t] = "recheck"]
  /\ UNCHANGED <<cbConfig, failures, lastFailTime, now, cerr, cresult, probes,
                 streak, executes>>
  /\ UNCHANGED <<hvars, qvars, tvars, histvars, rvars, pvars, xvars, wpvars>>

\* canExecute under the read lock again: return cb.state == CircuitBreakerHalfOpen
CanExecuteRecheck(t) ==
  /\ cpc[t] = "recheck"
  /\ IF AllowedAfterUpgrade(cbState)
       THEN /\ cpc' = [cpc EXCEPT ![t] = "fn"]
            /\ probes' = probes \cup {t}
            /\ UNCHANGED cresult
       ELSE /\ ExecuteReturns(t, OpenError)
            /\ UNCHANGED probes
  /\ UNCHANGED <<cbConfig, cbState, failures, lastFailTime, now, cerr,
                 streak, executes>>
  /\ UNCHANGED <<cbLast, everReset>>
  /\ UNCHANGED <<hvars, qvars, tvars, histvars, rvars, pvars, xvars, wpvars>>

\* err := fn()
InvokeFn(t, err) ==
  /\ cpc[t] = "fn"
  /\ cerr' = [cerr EXCEPT ![t] = err]
  /\ cpc' = [cpc EXCEPT ![t] = "record"]
  /\ UNCHANGED <<cbConfig, cbState, failures, lastFailTime, now, cresult,
                 probes, streak, executes>>
  /\ UNCHANGED <<cbLast, everReset>>
  /\ UNCHANGED <<hvars, qvars, tvars, histvars, rvars, pvars, xvars, wpvars>>

\* cb.recordResult(operation, err) under the write lock; return err
RecordResult(t) ==
  /\ cpc[t] = "record"
  /\ failures' = FailuresAfter(cbState, failures, cerr[t])
  /\ cbState' = StateAfter(cbState, failures, cerr[t])
  /\ lastFailTime' = IF cerr[t] # NoErr THEN now ELSE lastFailTime
  /\ streak' = IF cerr[t] # NoErr THEN streak + 1 ELSE 0
  /\ cbLast' = Changed(cbState, StateAfter(cbState, failures, cerr[t]),
                        IF cerr[t] # NoErr THEN "failure" ELSE "success")
  /\ probes' = probes \ {t}
  /\ UNCHANGED everReset
  /\ ExecuteReturns(t, cerr[t])
  /\ cerr' = [cerr EXCEPT ![t] = NotInvoked]
  /\ UNCHANGED <<cbConfig, now, executes>>
  /\ UNCHANGED <<hvars, qvars, tvars, histvars, rvars, pvars, xvars, wpvars>>

\* Reset(): back to closed with no failures (Healer.ResetCircuitBreaker)
Reset ==
  /\ cbState # Closed \/ failures # 0
  /\ cbState' = Closed
  /\ failures' = 0
  /\ streak' = 0
  /\ cbLast' = Changed(cbState, Closed, "reset")
  /\ everReset' = TRUE
  /\ UNCHANGED <<cbConfig, lastFailTime, now, cpc, cerr, cresult, probes,
                 executes>>
  /\ UNCHANGED <<hvars, qvars, tvars, histvars, rvars, pvars, xvars, wpvars>>

\* time passes.  The clock is compared with cb.lastFailTime only while the
\* breaker is open, so only the time that passes then is followed.
Tick ==
  /\ cbState = Open
  /\ now < MaxTime
  /\ now' = now + 1
  /\ UNCHANGED <<cbConfig, cbState, failures, lastFailTime, cpc, cerr, cresult,
                 probes, streak, executes>>
  /\ UNCHANGED <<cbLast, everReset>>
  /\ UNCHANGED <<hvars, qvars, tvars, histvars, rvars, pvars, xvars, wpvars>>

\* ------------------------------------- WorkerPool, BackgroundWorker (worker.go)
\* The pool of healer 1.  Start and Stop hold wp.mu from entry to return; the
\* worker loops run on their own goroutines.  Workers differ only in their
\* state, so wp.workers is kept as a bag of worker objects.
PoolHealer == 1
WorkerCounts == 1..MaxWorkerCount      \* config.WorkerCount after Validate
WorkerObjects ==
  [isRunning : BOOLEAN, stopClosed : BOOLEAN, pc : {"select", "processing", "exited"}]
NewWorker == [isRunning |-> TRUE, stopClosed |-> FALSE, pc |-> "select"]
Copies(o, n) == IF n > 0 THEN [x \in {o} |-> n] ELSE EmptyBag

\* GetWorkerCount / IsRunning
GetWorkerCount == BagCardinality(wpWorkers)
IsRunning == BagCardinality(wpWorkers) > 0

\* faulty variant: Start does not notice that the pool already runs
AlreadyStartedNever(ws) == FALSE
\* Start: if len(wp.workers) > 0 { return nil }
AlreadyStarted(ws) == BagCardinality(ws) > 0

\* faulty variant: Stop forgets to clear the slice
WorkersAfterStopKept(ws) == ws
\* Stop: wp.workers = nil
WorkersAfterStop(ws) == EmptyBag

\* faulty variant: Stop waits on wp.wg.Wait() alone
TimeoutFiresNever(running) == FALSE
\* Stop: case <-time.After(30 * time.Second) becomes ready however many
\* worker loops are still running
TimeoutFires(running) == TRUE

\* BackgroundWorker.Stop: what it leaves of worker o
StoppedWorker(o) ==
  IF o.isRunning THEN [o EXCEPT !.isRunning = FALSE, !.stopClosed = TRUE] ELSE o

RECURSIVE CopiesOf(_, _)
CopiesOf(S, B) ==
  IF S = {} THEN 0
  ELSE LET o == CHOOSE x \in S : TRUE IN B[o] + CopiesOf(S \ {o}, B)

\* stopWorkers: worker.Stop() for every worker of wp.workers
StopWorkers(ws) ==
  LET S == BagToSet(ws)
      T == {StoppedWorker(o) : o \in S}
  IN  [o2 \in T |-> CopiesOf({o \in S : StoppedWorker(o) = o2}, ws)]

\* the workers of bag ws whose loop is still running
Live(ws) ==
  LET S == {o \in BagToSet(ws) : o.pc # "exited"} IN [o \in S |-> ws[o]]

\* worker o of bag ws becomes o2
Becomes(ws, o, o2) == (ws (-) SetToBag({o})) (+) SetToBag({o2})

\* the stop signals that are ready for worker o
StopReady(o) == wpCtxDone \/ o.stopClosed

\* a call of Start or Stop returns nil
PoolCallReturns(t, op, did) ==
  /\ kpc' = [kpc EXCEPT ![t] = "idle"]
  /\ poolLast' = [op |-> op, did |-> did, err |-> "nil"]

\* WorkerPool.Start (Healer.Start), from wp.mu.Lock() to its return: make
\* config.WorkerCount workers and start each one (BackgroundWorker.Start:
\* isRunning, wg.Add(1), go w.run(ctx)).  The call waits while wp.mu is held.
Start(t) ==
  /\ kpc[t] = "idle"
  /\ wpMu = Nil
  /\ poolCalls < MaxPoolCalls
  /\ poolCalls' = poolCalls + 1
  /\ IF AlreadyStarted(wpWorkers)
       THEN /\ PoolCallReturns(t, "Start", "alreadyStarted")
            /\ UNCHANGED <<wpWorkers, wgCount, poolState>>
       ELSE /\ wpWorkers' = wpWorkers (+) Copies(NewWorker, workerCount)
            /\ wgCount' = wgCount + workerCount
            /\ poolState' = [poolState EXCEPT ![PoolHealer] = "running"]
            /\ PoolCallReturns(t, "Start", "started")
  /\ UNCHANGED <<workerCount, wpCtxDone, wpMu, doneClosed, orphans, lateDequeue,
                 doubleClose>>
  /\ UNCHANGED <<globalHealer, created, panicCapture, capacity, errorQueue, qvars,
                 tvars, histvars, rvars, pvars, xvars, cbvars>>

\* WorkerPool.Stop (Healer.Stop) takes wp.mu: nothing to do without workers;
\* otherwise wp.cancel(), stopWorkers() and the wait for done or the timer
\* begins.  The call waits while wp.mu is held.
Stop(t) ==
  /\ kpc[t] = "idle"
  /\ wpMu = Nil
  /\ poolCalls < MaxPoolCalls
  /\ poolCalls' = poolCalls + 1
  /\ IF BagCardinality(wpWorkers) = 0
       THEN /\ PoolCallReturns(t, "Stop", "alreadyStopped")
            /\ UNCHANGED <<wpWorkers, wpCtxDone, wpMu, doneClosed, doubleClose>>
       ELSE /\ wpCtxDone' = TRUE
            /\ wpWorkers' = StopWorkers(wpWorkers)
            /\ doubleClose' = (doubleClose \/
                                 \E o \in BagToSet(wpWorkers) :
                                    o.isRunning /\ o.stopClosed)
            /\ doneClosed' = FALSE
            /\ wpMu' = t
            /\ kpc' = [kpc EXCEPT ![t] = "stopWait"]
            /\ UNCHANGED poolLast
  /\ UNCHANGED <<workerCount, wgCount, orphans, lateDequeue>>
  /\ UNCHANGED <<hvars, qvars, tvars, histvars, rvars, pvars, xvars, cbvars>>

\* faulty variant: wp.wg.Wait() returns while one loop is still running
WaitReturnsEarly(n) == n <= 1
\* wp.wg.Wait() returns when the counter of wp.wg is zero
WaitReturns(n) == n = 0

\* go func() { wp.wg.Wait(); close(done) }(): every worker loop has exited
WaitGroupDone(t) ==
  /\ kpc[t] = "stopWait"
  /\ WaitReturns(wgCount)
  /\ ~doneClosed
  /\ doneClosed' = TRUE
  /\ UNCHANGED <<workerCount, wpWorkers, wpCtxDone, wpMu, wgCount, orphans, kpc,
                 poolLast, poolCalls, lateDequeue, doubleClose>>
  /\ UNCHANGED <<hvars, qvars, tvars, histvars, rvars, pvars, xvars, cbvars>>

\* the rest of Stop: wp.workers = nil; return nil.  The workers whose loop is
\* still running go on without the pool.
StopFinishes(t, did) ==
  /\ wpWorkers' = WorkersAfterStop(wpWorkers)
  /\ orphans' = orphans (+) Live(wpWorkers (-) wpWorkers')
  /\ wpMu' = Nil
  /\ poolState' = [poolState EXCEPT ![PoolHealer] = "stopped"]
  /\ PoolCallReturns(t, "Stop", did)
  /\ UNCHANGED <<workerCount, wpCtxDone, wgCount, doneClosed, poolCalls,
                 lateDequeue, doubleClose>>
  /\ UNCHANGED <<globalHealer, created, panicCapture, capacity, errorQueue, qvars,
                 tvars, histvars, rvars, pvars, xvars, cbvars>>

\* Stop: case <-done
StopGraceful(t) ==
  /\ kpc[t] = "stopWait"
  /\ doneClosed
  /\ StopFinishes(t, "stopped")

\* Stop: case <-time.After(30 * time.Second)
StopTimeout(t) ==
  /\ kpc[t] = "stopWait"
  /\ TimeoutFires(wgCount)
  /\ StopFinishes(t, "timedOut")

\* worker o, of the pool or dropped from it, is at position pc of its loop
WorkerAt(inPool, o, pc) ==
  /\ o.pc = pc
  /\ BagIn(o, IF inPool THEN wpWorkers ELSE orphans)

\* worker o goes to position pc; a dropped worker that exits is gone
WorkerGoes(inPool, o, pc) ==
  IF inPool
    THEN /\ wpWorkers' = Becomes(wpWorkers, o, [o EXCEPT !.pc = pc])
         /\ UNCHANGED orphans
    ELSE /\ orphans' = IF pc = "exited" THEN orphans (-) SetToBag({o})
                       ELSE Becomes(orphans, o, [o EXCEPT !.pc = pc])
         /\ UNCHANGED wpWorkers

\* the worker's loop returns: defer w.wg.Done()
WorkerLoopEnds(inPool, o) ==
  /\ WorkerGoes(inPool, o, "exited")
  /\ wgCount' = wgCount - 1
  /\ UNCHANGED <<workerCount, wpCtxDone, wpMu, doneClosed, kpc, poolLast,
                 poolCalls, lateDequeue, doubleClose>>
  /\ UNCHANGED <<hvars, qvars, tvars, histvars, rvars, pvars, xvars, cbvars>>

\* BackgroundWorker.run: select picks case <-ctx.Done()
WorkerSeesCancel(inPool, o) ==
  /\ WorkerAt(inPool, o, "select")
  /\ wpCtxDone
  /\ WorkerLoopEnds(inPool, o)

\* BackgroundWorker.run: select picks case <-w.stopCh
WorkerSeesStop(inPool, o) ==
  /\ WorkerAt(inPool, o, "select")
  /\ o.stopClosed
  /\ WorkerLoopEnds(inPool, o)

\* BackgroundWorker.run: select picks case event := <-w.healer.errorQueue.
\* When several cases are ready the select picks any one of them.
WorkerTakesEvent(inPool, o) ==
  /\ WorkerAt(inPool, o, "select")
  /\ ChanHasItem(errorQueue[PoolHealer])
  /\ errorQueue' = [errorQueue EXCEPT ![PoolHealer] = ChanAfterRecv(@)]
  /\ dequeued' = [dequeued EXCEPT ![PoolHealer] = Append(@, Head(errorQueue[PoolHealer]))]
  /\ sequential' = FALSE
  /\ WorkerGoes(inPool, o, "processing")
  /\ lateDequeue' = (lateDequeue \/ StopReady(o))
  /\ UNCHANGED <<workerCount, wpCtxDone, wpMu, wgCount, doneClosed, kpc, poolLast, poolCalls, doubleClose>>
  /\ UNCHANGED <<globalHealer, created, panicCapture, capacity, poolState, qvars,
                 tvars, nextId, evicted, rejected, rvars, pvars, xvars, cbvars>>

\* w.processEvent(ctx, event) returns and the loop comes back to its select
WorkerProcessed(inPool, o) ==
  /\ WorkerAt(inPool, o, "processing")
  /\ WorkerGoes(inPool, o, "select")
  /\ UNCHANGED <<workerCount, wpCtxDone, wpMu, wgCount, doneClosed, kpc, poolLast, poolCalls, lateDequeue, doubleClose>>
  /\ UNCHANGED <<hvars, qvars, tvars, histvars, rvars, pvars, xvars, cbvars>>

\* ------------------------- processEvent and the per-event pipeline (worker.go)
\* One worker of the pool processes the events it dequeues.  The retry manager
\* of the healer runs cb.Execute(processEventWithTimeoutManagement) up to
\* MaxAttempts times; the worker calls Execute as goroutine Worker.
Worker == 1
EventIds == 1..MaxEvents
NilFix == [isNil |-> TRUE, IsValid |-> FALSE, ProposedFix |-> "", Confidence |-> 0]
ConfidenceThreshold == 70              \* confidenceThreshold := 0.7, in hundredths
\* what GenerateFixWithFallback returns without error: a non-nil *FixResponse
FixResponses ==
  [isNil : {FALSE}, IsValid : BOOLEAN, ProposedFix : {"", "patch"},
   Confidence : {ConfidenceThreshold - 1, ConfidenceThreshold}]
\* fmt.Errorf("phase '%s' failed: %w", ...) / "... timed out after ...: %w"
PhaseError(name) == "phase failed: " \o name

\* the event the worker is processing: the one it dequeued last
CurrentEvent == dequeued[PoolHealer][Len(dequeued[PoolHealer])]

\* faulty variant: the confidence of the proposal is not looked at
GateSkipsAnyConfidence(f) == f.isNil \/ ~f.IsValid \/ f.ProposedFix = ""
\* processEventWithGit: fixResponse == nil || !fixResponse.IsValid ||
\* fixResponse.ProposedFix == "", or fixResponse.Confidence < confidenceThreshold
GateSkips(f) ==
  \/ f.isNil \/ ~f.IsValid \/ f.ProposedFix = ""
  \/ f.Confidence < ConfidenceThreshold

\* faulty variant: the phase loop goes on after a failed phase
PhaseAbortsNever(err) == FALSE
\* processEventWithTimeoutManagement: if err != nil { return ... }
PhaseAborts(err) == err # NoErr

\* faulty variant: processEvent does not mark the event
StatusAtStartKept == "queued"
\* processEvent: event.Status = "processing"
StatusAtStart == "processing"

\* faulty variant: every processed event is marked completed
StatusAfterAlwaysCompleted(res) == "completed"
\* processEvent: "failed" if processEventWithRetry returned an error
StatusAfter(res) == IF res = NilResult THEN "completed" ELSE "failed"

\* faulty variant: the timer never fires
TimerWinsNever(done) == FALSE
\* faulty variant: the timer case may be taken although ctx.Done() is closed
TimerWinsAlways(done) == TRUE
\* select { case <-ctx.Done(): case <-time.After(delay): } with delay > 0:
\* the timer case is taken only if the timer fires before ctx is cancelled
TimerWins(done) == ~done

\* the variables of ExecuteWithRetry and of the breaker the pipeline leaves alone
retryRest == <<cfg, operation, rpc, outcomes, waits, succeedsAt, ctxDone, parked, wake>>
breakerRest == <<cbConfig, cbState, failures, lastFailTime, now, probes, streak,
                 executes, cbLast, everReset>>

\* fn of cb.Execute returns err: cb.recordResult(operation, err) comes next.
\* fixResponse is a local of processEventWithTimeoutManagement.
PipelineReturns(err) ==
  /\ cerr' = [cerr EXCEPT ![Worker] = err]
  /\ cpc' = [cpc EXCEPT ![Worker] = "record"]
  /\ ppc' = "execute"
  /\ fix' = NilFix

\* processEvent up to the first call of fn: event.Status = "processing";
\* processEventWithRetry calls ExecuteWithRetry (delay := InitialDelay; attempt := 1)
ProcessEvent ==
  /\ ppc = "idle"
  /\ \E inPool \in BOOLEAN, o \in WorkerObjects : WorkerAt(inPool, o, "processing")
  /\ status' = [status EXCEPT ![CurrentEvent] = StatusAtStart]
  /\ attempt' = 1
  /\ delay' = cfg.InitialDelay
  /\ lastErr' = NoErr
  /\ rresult' = Pending
  /\ ppc' = "attempt"
  /\ UNCHANGED <<fix, gattempt, aiOn, gitOn, retryRest, cbvars>>
  /\ prCreated' = FALSE
  /\ UNCHANGED <<hvars, qvars, tvars, histvars, wpvars, ovars, cvars, svars, fvars>>

\* ExecuteWithRetry: err := fn(), which is circuitBreaker.Execute(...)
AttemptBegins ==
  /\ ppc = "attempt"
  /\ cpc' = [cpc EXCEPT ![Worker] = "canExecute"]
  /\ cresult' = [cresult EXCEPT ![Worker] = "pending"]
  /\ ppc' = "execute"
  /\ UNCHANGED <<fix, gattempt, status, aiOn, gitOn, cerr, breakerRest, rvars>>
  /\ UNCHANGED <<hvars, qvars, tvars, histvars, wpvars, xvars>>

\* the breaker lets the call through: processEventWithTimeoutManagement starts
\* phase "ai-processing"; processEventWithAI returns (nil, nil) without a
\* provider manager, otherwise it calls GenerateFixWithFallback
AnalyzeBegins ==
  /\ ppc = "execute"
  /\ cpc[Worker] = "fn"
  /\ fix' = NilFix
  /\ ppc' = IF aiOn THEN "analyze" ELSE "remediate"
  /\ UNCHANGED <<gattempt, status, aiOn, gitOn, rvars, cbvars>>
  /\ UNCHANGED <<hvars, qvars, tvars, histvars, wpvars, xvars>>

\* GenerateFixWithFallback returns a response, or an error (a failure, the
\* 45 s deadline of the phase, the cancelled context); an error ends the attempt
AnalyzeReturns(f, err) ==
  /\ ppc = "analyze"
  /\ IF PhaseAborts(err)
       THEN /\ PipelineReturns(err)
            /\ UNCHANGED <<gattempt, status, aiOn, gitOn, cresult>>
       ELSE /\ fix' = f
            /\ ppc' = "remediate"
            /\ UNCHANGED <<gattempt, status, aiOn, gitOn, cpc, cerr, cresult>>
  /\ UNCHANGED <<breakerRest, rvars>>
  /\ UNCHANGED <<hvars, qvars, tvars, histvars, wpvars, xvars>>

\* phase "git-processing": processEventWithGit returns nil without a git
\* client or when the gate rejects the proposal; otherwise ExecuteWithRetry
\* around CreatePullRequest begins
Remediate ==
  /\ ppc = "remediate"
  /\ IF ~gitOn \/ GateSkips(fix)
       THEN /\ PipelineReturns(NoErr)
            /\ UNCHANGED <<gattempt, status, aiOn, gitOn, cresult>>
       ELSE /\ gattempt' = 1
            /\ ppc' = "createPR"
            /\ UNCHANGED <<fix, status, aiOn, gitOn, cpc, cerr, cresult>>
  /\ UNCHANGED <<breakerRest, rvars>>
  /\ UNCHANGED <<hvars, qvars, tvars, histvars, wpvars, ovars, cvars, svars, fvars, prCreated>>

\* CreatePullRequest returns: nil ends the phase; an error after the last
\* attempt fails the phase; any other error goes to the backoff select
CreatePRReturns(err) ==
  /\ ppc = "createPR"
  /\ prCreated' = (prCreated \/ err = NoErr)
  /\ IF StopsOnSuccess(err)
       THEN /\ PipelineReturns(NoErr)
            /\ UNCHANGED <<gattempt, status, aiOn, gitOn, cresult>>
       ELSE IF IsLastAttempt(gattempt)
         THEN /\ PipelineReturns(PhaseError("git-processing"))
              /\ UNCHANGED <<gattempt, status, aiOn, gitOn, cresult>>
         ELSE /\ ppc' = "gitWait"
              /\ UNCHANGED <<fix, gattempt, status, aiOn, gitOn, cpc, cerr, cresult>>
  /\ UNCHANGED <<breakerRest, rvars>>
  /\ UNCHANGED <<hvars, qvars, tvars, histvars, wpvars, ovars, cvars, svars, fvars>>

\* the backoff timer between two CreatePullRequest attempts fires
GitWaitTimer ==
  /\ ppc = "gitWait"
  /\ TimerWins(wpCtxDone)
  /\ gattempt' = gattempt + 1
  /\ ppc' = "createPR"
  /\ UNCHANGED <<fix, status, aiOn, gitOn, rvars, cbvars>>
  /\ UNCHANGED <<hvars, qvars, tvars, histvars, wpvars, ovars, cvars, svars, fvars, prCreated>>

\* case <-gitCtx.Done(): the pool's context is cancelled or the deadline of the
\* phase (60 s) passes during the wait
GitWaitCancelled ==
  /\ ppc = "gitWait"
  /\ PipelineReturns(PhaseError("git-processing"))
  /\ UNCHANGED <<gattempt, status, aiOn, gitOn, cresult, breakerRest, rvars>>
  /\ UNCHANGED <<hvars, qvars, tvars, histvars, wpvars, xvars>>

\* cb.Execute has returned err to ExecuteWithRetry: nil ends the loop, the last
\* attempt ends it with the composite error, otherwise the select is entered
AttemptReturns ==
  /\ ppc = "execute"
  /\ cpc[Worker] = "idle"
  /\ IF StopsOnSuccess(cresult[Worker])
       THEN /\ rresult' = NilResult
            /\ ppc' = "finish"
            /\ UNCHANGED lastErr
       ELSE /\ lastErr' = cresult[Worker]
            /\ IF IsLastAttempt(attempt)
                 THEN /\ rresult' = FailedAfter(operation, cfg.MaxAttempts, cresult[Worker])
                      /\ ppc' = "finish"
                 ELSE /\ ppc' = "backoff"
                      /\ UNCHANGED rresult
  /\ UNCHANGED <<fix, gattempt, status, aiOn, gitOn, attempt, delay, retryRest, cbvars>>
  /\ UNCHANGED <<hvars, qvars, tvars, histvars, wpvars, xvars>>

\* case <-time.After(delay): next delay, next attempt
BackoffTimer ==
  /\ ppc = "backoff"
  /\ TimerWins(wpCtxDone)
  /\ delay' = NextDelay(delay)
  /\ attempt' = attempt + 1
  /\ ppc' = "attempt"
  /\ UNCHANGED <<fix, gattempt, status, aiOn, gitOn, lastErr, rresult, retryRest, cbvars>>
  /\ UNCHANGED <<hvars, qvars, tvars, histvars, wpvars, xvars>>

\* case <-ctx.Done(): ExecuteWithRetry returns the cancellation error
BackoffCancelled ==
  /\ ppc = "backoff"
  /\ wpCtxDone
  /\ rresult' = Cancelled(operation)
  /\ ppc' = "finish"
  /\ UNCHANGED <<fix, gattempt, status, aiOn, gitOn, attempt, delay, lastErr, retryRest, cbvars>>
  /\ UNCHANGED <<hvars, qvars, tvars, histvars, wpvars, xvars>>

\* the rest of processEvent: event.Status = "failed" or "completed"; the
\* worker is back at the select of its loop and processes no event
ProcessEventEnds(inPool, o) ==
  /\ ppc = "finish"
  /\ WorkerAt(inPool, o, "processing")
  /\ status' = [status EXCEPT ![CurrentEvent] = StatusAfter(rresult)]
  /\ ppc' = "idle"
  /\ WorkerGoes(inPool, o, "select")
  /\ UNCHANGED <<fix, gattempt, aiOn, gitOn, rvars, cbvars>>
  /\ UNCHANGED <<workerCount, wpCtxDone, wpMu, wgCount, doneClosed, kpc, poolLast,
                 poolCalls, lateDequeue, doubleClose>>
  /\ prCreated' = FALSE
  /\ UNCHANGED <<hvars, qvars, tvars, histvars, ovars, cvars, svars, fvars>>

\* Healer.Stop is called once, by goroutine Stopper
Stopper == 1
StopOnce(t) == ~wpCtxDone /\ Stop(t)

\* time passes while the breaker is open, until the recovery timeout is over
RecoveryTick == ~RecoveryElapsed(lastFailTime) /\ Tick

\* ------------------------------------------------------------ specifications
IdleThreads ==
  /\ tpc = [t \in Threads |-> "idle"]
  /\ tentry = [t \in Threads |-> "none"]
  /\ tfault = [t \in Threads |-> NoFault]
  /\ ttarget = [t \in Threads |-> Nil]
  /\ tevent = [t \in Threads |-> 0]
  /\ tsteps = [t \in Threads |-> 0]
  /\ tresult = [t \in Threads |-> "none"]
  /\ tcapture = [t \in Threads |-> "none"]
  /\ traised = [t \in Threads |-> NoFault]

EmptyQueues ==
  /\ errorQueue = [h \in Healers |-> <<>>]
  /\ poolState = [h \in Healers |-> "new"]
  /\ droppedCount = [h \in Healers |-> 0]
  /\ mu = [h \in Healers |-> Nil]
  /\ nextId = 1
  /\ evicted = [h \in Healers |-> {}]
  /\ rejected = [h \in Healers |-> {}]
  /\ dequeued = [h \in Healers |-> <<>>]
  /\ sequential = TRUE

\* ExecuteWithRetry has not been called
RetryIdle ==
  /\ cfg = [MaxAttempts |-> 3, InitialDelay |-> 1, MaxDelay |-> 4,
            BackoffFactor |-> <<2, 1>>]
  /\ operation = "process-event"
  /\ rpc = "done"
  /\ attempt = 1
  /\ delay = 1
  /\ lastErr = NoErr
  /\ rresult = Pending
  /\ outcomes = <<>>
  /\ waits = <<>>
  /\ succeedsAt = 0
  /\ ctxDone = FALSE
  /\ parked = FALSE
  /\ wake = "none"

\* NewCircuitBreaker(DefaultCircuitBreakerConfig(), logger): no Execute yet
BreakerFresh ==
  /\ cbState = Closed
  /\ failures = 0
  /\ lastFailTime = ZeroTime
  /\ now = 0
  /\ cpc = [t \in Threads |-> "idle"]
  /\ cerr = [t \in Threads |-> NotInvoked]
  /\ cresult = [t \in Threads |-> "none"]
  /\ probes = {}
  /\ streak = 0
  /\ executes = 0
  /\ cbLast = NoChange
  /\ everReset = FALSE

BreakerIdle ==
  /\ cbConfig = [FailureThreshold |-> 5, RecoveryTimeout |-> 30]
  /\ BreakerFresh

\* NewWorkerPool(healer, logger): no Start yet
PoolFresh ==
  /\ wpWorkers = EmptyBag
  /\ wpCtxDone = FALSE
  /\ wpMu = Nil
  /\ wgCount = 0
  /\ doneClosed = FALSE
  /\ orphans = EmptyBag
  /\ kpc = [t \in Threads |-> "idle"]
  /\ poolLast = [op |-> "none", did |-> "none", err |-> "nil"]
  /\ poolCalls = 0
  /\ lateDequeue = FALSE
  /\ doubleClose = FALSE

PoolIdle ==
  /\ workerCount = 2
  /\ PoolFresh

\* no worker is inside processEvent; NewPanicEvent sets Status "queued"
PipelineIdle ==
  /\ ppc = "idle"
  /\ fix = NilFix
  /\ gattempt = 0
  /\ status = [e \in EventIds |-> "queued"]
  /\ aiOn = FALSE
  /\ gitOn = FALSE

\* --------------------------------- ProviderManager (ai/provider_manager.go)
\* NewProviderManager builds a client for each of openai, claude and codex
\* that has an API key, the configured provider first: one to three providers
NumProviders == 3

\* FixResponse.Confidence, in tenths
Confidences == {1, 3, 5}

\* if response.Confidence < 0.3
MinConfidence == 3

\* a nil *FixResponse
NoResponse == [id |-> 0, ProposedFix |-> "", IsValid |-> FALSE, Confidence |-> 0]

\* provider.GenerateFix returns (nil, err) or (response, nil): every client
\* ends in  return nil, fmt.Errorf(...)  or  return fixResponse, nil
FailedReply == [err |-> TRUE, ProposedFix |-> "", IsValid |-> FALSE, Confidence |-> 0]

Replies ==
  {FailedReply} \cup
  [err : {FALSE}, ProposedFix : {"", "fix"}, IsValid : BOOLEAN, Confidence : Confidences]

NoReply == [id |-> 0, err |-> FALSE, ProposedFix |-> "", IsValid |-> FALSE, Confidence |-> 0]

\* the *FixResponse of a reply; id tells the pointers apart: the number of
\* the GenerateFix call that returned it
ResponseOf(reply, id) ==
  IF reply.err THEN NoResponse
  ELSE [id |-> id, ProposedFix |-> reply.ProposedFix, IsValid |-> reply.IsValid,
        Confidence |-> reply.Confidence]

\* pm.isValidResponse(response)
isValidResponse(response) ==
  /\ response # NoResponse
  /\ response.ProposedFix # ""
  /\ ~(response.Confidence < MinConfidence)
  /\ response.IsValid

\* if bestResponse == nil || response.Confidence > bestResponse.Confidence
ReplacesBestOnTie(best, response) ==
  best = NoResponse \/ response.Confidence >= best.Confidence

ReplacesBest(best, response) ==
  best = NoResponse \/ response.Confidence > best.Confidence

\* fmt.Errorf("all AI providers failed, last error: %w", lastError); ctx.Err()
AllProvidersFailed == "all AI providers failed"
ContextCanceled == "context canceled"

NoResult == [response |-> NoResponse, err |-> "pending"]

\* GenerateFix calls made so far by the two loops
CallsMade == (provider - 1) * pm.maxRetries + fattempt

FallbackReturns(response, err) ==
  /\ fresult' = [response |-> response, err |-> err]
  /\ fpc' = "done"

FallbackRest ==
  UNCHANGED <<hvars, qvars, tvars, histvars, rvars, cbvars, wpvars, pvars,
              ovars, cvars, svars, gvars>>

\* response, err := provider.GenerateFix(ctx, optimizedRequest) returns, and
\* the loop body runs up to its wait, the next provider or a return
GenerateFixReturns(reply) ==
  /\ fpc = "call"
  /\ LET id == CallsMade + 1
         response == ResponseOf(reply, id)
         kept == ~reply.err /\ ~isValidResponse(response)
                   /\ ReplacesBest(bestResponse, response)
         best == IF kept THEN response ELSE bestResponse
     IN  /\ calls' = [calls EXCEPT ![provider] = @ + 1]
         /\ freply' = [id |-> id, err |-> reply.err, ProposedFix |-> reply.ProposedFix,
                       IsValid |-> reply.IsValid, Confidence |-> reply.Confidence]
         /\ firstWith' = IF ~reply.err /\ firstWith[reply.Confidence] = 0
                           THEN [firstWith EXCEPT ![reply.Confidence] = id]
                           ELSE firstWith
         /\ IF ~reply.err /\ isValidResponse(response)
              THEN /\ FallbackReturns(response, NoErr)
                   /\ UNCHANGED <<provider, fattempt, bestResponse>>
              ELSE /\ bestResponse' = best
                   /\ IF fattempt < pm.maxRetries - 1
                        THEN /\ fpc' = "wait"
                             /\ UNCHANGED <<provider, fattempt, fresult>>
                        ELSE IF provider < pm.providers
                               THEN /\ provider' = provider + 1
                                    /\ fattempt' = 0
                                    /\ UNCHANGED <<fpc, fresult>>
                               ELSE /\ IF best # NoResponse
                                         THEN FallbackReturns(best, NoErr)
                                         ELSE FallbackReturns(NoResponse, AllProvidersFailed)
                                    /\ UNCHANGED <<provider, fattempt>>
  /\ UNCHANGED <<pm, fctxDone>>
  /\ FallbackRest

\* case <-time.After(pm.retryDelay): the next attempt on the same provider
RetryDelayElapses ==
  /\ fpc = "wait"
  /\ fpc' = "call"
  /\ fattempt' = fattempt + 1
  /\ UNCHANGED <<pm, provider, bestResponse, fresult, fctxDone, calls, freply, firstWith>>
  /\ FallbackRest

\* case <-ctx.Done(): return nil, ctx.Err()
FallbackSeesCancel ==
  /\ fpc = "wait"
  /\ fctxDone
  /\ FallbackReturns(NoResponse, ContextCanceled)
  /\ UNCHANGED <<pm, provider, fattempt, bestResponse, fctxDone, calls, freply, firstWith>>
  /\ FallbackRest

\* the caller's context is cancelled while the call is in progress
CancelFallback ==
  /\ fpc \in {"call", "wait"}
  /\ ~fctxDone
  /\ fctxDone' = TRUE
  /\ UNCHANGED <<pm, fpc, provider, fattempt, bestResponse, fresult, calls, freply, firstWith>>
  /\ FallbackRest

\* no provider manager is in use
NoFallbackCall ==
  /\ pm = [providers |-> 0, maxRetries |-> 0]
  /\ fpc = "idle"
  /\ provider = 0
  /\ fattempt = 0
  /\ bestResponse = NoResponse
  /\ fresult = NoResult
  /\ fctxDone = FALSE
  /\ calls = [p \in 1..NumProviders |-> 0]
  /\ freply = NoReply
  /\ firstWith = [c \in Confidences |-> 0]

\* no hook call is in progress and the pointer is as Initialize left it
PointerUntouched ==
  /\ tfresh = [t \in Threads |-> FALSE]
  /\ overridden = FALSE

\* every healer that exists was built by Initialize from a configuration that
\* left the worker count and the retry attempts to their defaults
ConfigsAsBuilt ==
  /\ hconfig = [h \in Healers |->
                  IF created[h] THEN ApplyDefaults(QueueOnly(capacity[h])) ELSE NoConfig]
  /\ initResult = [healer |-> globalHealer, err |-> NoErr,
                   given |-> IF globalHealer = Nil THEN NoConfig
                             ELSE QueueOnly(capacity[globalHealer])]

\* no event is being processed
NoPullRequests ==
  /\ prCreated = FALSE

\* GetQueueStats has not been called
NoStatsCall ==
  /\ spc = "idle"
  /\ stats = NoStats

\* no healer exists yet: the process has just started
NoHealers ==
  /\ globalHealer = Nil
  /\ created = [h \in Healers |-> FALSE]
  /\ panicCapture = [h \in Healers |-> FALSE]
  /\ capacity = [h \in Healers |-> 0]

\* The queue: one healer, as Initialize(config) returned it, with producers
\* calling EnqueueEvent and the worker pool draining the queue.
InitQueue ==
  /\ globalHealer = 1
  /\ created = [h \in Healers |-> h = 1]
  /\ panicCapture = [h \in Healers |-> FALSE]
  /\ \E c \in 1..MaxQueueSize : capacity = [h \in Healers |-> IF h = 1 THEN c ELSE 0]
  /\ EmptyQueues
  /\ IdleThreads
  /\ RetryIdle
  /\ BreakerIdle
  /\ PoolIdle
  /\ PipelineIdle
  /\ PointerUntouched
  /\ ConfigsAsBuilt
  /\ NoStatsCall
  /\ NoPullRequests
  /\ NoFallbackCall

EnqueueStep(t) ==
  \/ EnqueueEvent(t)
  \/ OverflowLock(t)
  \/ OverflowRecv(t)
  \/ OverflowSend(t)
  \/ OverflowRetry(t)

NextQueue ==
  \/ \E t \in Threads : CallEnqueueEvent(t, 1)
  \/ \E t \in Threads : EnqueueStep(t)
  \/ PoolStart(1)
  \/ PoolStop(1)
  \/ WorkerDequeue(1)

SpecQueue == InitQueue /\ [][NextQueue]_vars

\* The status surface: one goroutine calls GetQueueStats again and again
\* while a producer enqueues and the worker pool drains the queue.
Producer == 1

NextStats ==
  \/ CallEnqueueEvent(Producer, 1)
  \/ EnqueueStep(Producer)
  \/ PoolStart(1)
  \/ WorkerDequeue(1)
  \/ StatsCapacity(1)
  \/ StatsLength(1)
  \/ StatsAvailable(1)

SpecStats == InitQueue /\ [][NextStats]_vars

\* The capture hooks: healers are created, installed, replaced and cleared
\* while threads run HandlePanic and RecoverAndHandle.  No healer is started
\* (Healer.Start is not called, as in the tests), so no worker drains a queue
\* and handleQueueOverflow never finds the queue empty.
InitCapture ==
  /\ NoHealers
  /\ EmptyQueues
  /\ IdleThreads
  /\ RetryIdle
  /\ BreakerIdle
  /\ PoolIdle
  /\ PipelineIdle
  /\ PointerUntouched
  /\ ConfigsAsBuilt
  /\ NoStatsCall
  /\ NoPullRequests
  /\ NoFallbackCall

NextCapture ==
  \/ \E h \in Healers, c \in 1..MaxQueueSize : Initialize(h, c)
  \/ \E h \in Healers : InstallPanicHandler(h)
  \/ \E h \in Healers \cup {Nil} : SetGlobalHealer(h)
  \/ RestorePanicHandler
  \/ \E t \in Threads, kind \in {"rethrow", "suppress"}, r \in Faults :
       HookRecover(t, kind, r)
  \/ \E t \in Threads :
       \/ HookCheckHealer(t)
       \/ HookCheckCapture(t)
       \/ HookCapturePanic(t)
       \/ LogCheckHealer(t)
       \/ LogCheckLogger(t)
       \/ LogRecovered(t)
  \/ \E t \in Threads :
       \/ EnqueueEvent(t)
       \/ OverflowLock(t)
       \/ OverflowRecv(t)
       \/ OverflowSend(t)

SpecCapture == InitCapture /\ [][NextCapture]_vars

\* Installing healers one after another while one goroutine at a time runs a
\* capture hook: the writes to the global pointer by Initialize,
\* SetGlobalHealer and RestorePanicHandler interleave with the hook's steps.
Hooker == 1

HookStep(t) ==
  \/ HookCheckHealer(t)
  \/ HookCheckCapture(t)
  \/ HookCapturePanic(t)
  \/ LogCheckHealer(t)
  \/ LogCheckLogger(t)
  \/ LogRecovered(t)

NextInstall ==
  \/ \E h \in Healers, c \in 1..MaxQueueSize : Initialize(h, c)
  \/ \E h \in Healers : InstallPanicHandler(h)
  \/ \E h \in Healers \cup {Nil} : SetGlobalHealer(h)
  \/ RestorePanicHandler
  \/ \E kind \in {"rethrow", "suppress"}, r \in Faults : HookRecover(Hooker, kind, r)
  \/ HookStep(Hooker)
  \/ EnqueueEvent(Hooker)
  \/ OverflowLock(Hooker)
  \/ OverflowRecv(Hooker)
  \/ OverflowSend(Hooker)

SpecInstall == InitCapture /\ [][NextInstall]_vars

\* Construction: Initialize is called with valid and invalid configurations
\* while healers are replaced and cleared as the global one.
NextConfig ==
  \/ \E h \in Healers, config \in Configs : InitializeConfig(h, config)
  \/ \E h \in Healers \cup {Nil} : SetGlobalHealer(h)
  \/ RestorePanicHandler

SpecConfig == InitCapture /\ [][NextConfig]_vars

\* The retry executor: one call of ExecuteWithRetry(ctx, operation, fn) under
\* any configuration, any behaviour of fn and any moment of cancellation.
InitRetry ==
  /\ NoHealers
  /\ EmptyQueues
  /\ IdleThreads
  /\ cfg \in RetryConfigs
  /\ operation \in Operations
  /\ succeedsAt \in 0..MaxRetryAttempts
  /\ rpc = "attempt"
  /\ attempt = 1
  /\ delay = cfg.InitialDelay
  /\ lastErr = NoErr
  /\ rresult = Pending
  /\ outcomes = <<>>
  /\ waits = <<>>
  /\ ctxDone = FALSE
  /\ parked = FALSE
  /\ wake = "none"
  /\ BreakerIdle
  /\ PoolIdle
  /\ PipelineIdle
  /\ PointerUntouched
  /\ ConfigsAsBuilt
  /\ NoStatsCall
  /\ NoPullRequests
  /\ NoFallbackCall

NextRetry ==
  \/ RetryAttempt
  \/ RetrySelect
  \/ TimerFires
  \/ CancelContext
  \/ RetryWake

SpecRetry == InitRetry /\ [][NextRetry]_vars

\* The circuit breaker: goroutines call Execute on one shared breaker under any
\* configuration, any results of fn and any passage of time, and Reset is
\* called at any moment.
InitBreaker ==
  /\ NoHealers
  /\ EmptyQueues
  /\ IdleThreads
  /\ RetryIdle
  /\ PoolIdle
  /\ PipelineIdle
  /\ PointerUntouched
  /\ ConfigsAsBuilt
  /\ NoStatsCall
  /\ NoPullRequests
  /\ NoFallbackCall
  /\ \E th \in Thresholds, rt \in RecoveryTimeouts :
        cbConfig = [FailureThreshold |-> th, RecoveryTimeout |-> rt]
  /\ BreakerFresh

NextBreaker ==
  \/ \E t \in Threads : CallExecute(t)
  \/ \E t \in Threads : CanExecute(t)
  \/ \E t \in Threads : CanExecuteUpgrade(t)
  \/ \E t \in Threads : CanExecuteRecheck(t)
  \/ \E t \in Threads, err \in {NoErr, "errA"} : InvokeFn(t, err)
  \/ \E t \in Threads : RecordResult(t)
  \/ Reset
  \/ Tick

SpecBreaker == InitBreaker /\ [][NextBreaker]_vars

\* The worker pool of one healer: events were captured before Start, then
\* goroutines call Start and Stop while the worker loops run.  No producer
\* runs, so a worker blocked in its select is woken by a stop signal only.
InitPool ==
  /\ globalHealer = PoolHealer
  /\ created = [h \in Healers |-> h = PoolHealer]
  /\ panicCapture = [h \in Healers |-> FALSE]
  /\ \E k \in 0..MaxQueueSize :
        /\ capacity = [h \in Healers |-> IF h = PoolHealer THEN MaxQueueSize ELSE 0]
        /\ errorQueue = [h \in Healers |->
                           IF h = PoolHealer THEN [i \in 1..k |-> i] ELSE <<>>]
        /\ nextId = k + 1
  /\ poolState = [h \in Healers |-> "new"]
  /\ droppedCount = [h \in Healers |-> 0]
  /\ mu = [h \in Healers |-> Nil]
  /\ evicted = [h \in Healers |-> {}]
  /\ rejected = [h \in Healers |-> {}]
  /\ dequeued = [h \in Healers |-> <<>>]
  /\ sequential = TRUE
  /\ IdleThreads
  /\ RetryIdle
  /\ BreakerIdle
  /\ workerCount \in WorkerCounts
  /\ PoolFresh
  /\ PipelineIdle
  /\ PointerUntouched
  /\ ConfigsAsBuilt
  /\ NoStatsCall
  /\ NoPullRequests
  /\ NoFallbackCall

NextPool ==
  \/ \E t \in Threads : Start(t)
  \/ \E t \in Threads : Stop(t)
  \/ \E t \in Threads : WaitGroupDone(t)
  \/ \E t \in Threads : StopGraceful(t)
  \/ \E t \in Threads : StopTimeout(t)
  \/ \E inPool \in BOOLEAN, o \in WorkerObjects : WorkerSeesCancel(inPool, o)
  \/ \E inPool \in BOOLEAN, o \in WorkerObjects : WorkerSeesStop(inPool, o)
  \/ \E inPool \in BOOLEAN, o \in WorkerObjects : WorkerTakesEvent(inPool, o)
  \/ \E inPool \in BOOLEAN, o \in WorkerObjects : WorkerProcessed(inPool, o)

SpecPool == InitPool /\ [][NextPool]_vars

\* The pipeline: the pool of healer 1 was started with one worker (WorkerCount
\* 1) after events were captured; the worker processes what it dequeues while
\* Stop may be called; what Stop does after its wait began, which no worker
\* can observe, is left to SpecPool.  RetryAttempts is at least 1 after ApplyDefaults and
\* Validate; the delays are those of Initialize, in seconds; the breaker's
\* FailureThreshold (5) and RecoveryTimeout (30 s) are scaled down.
InitPipeline ==
  /\ globalHealer = PoolHealer
  /\ created = [h \in Healers |-> h = PoolHealer]
  /\ panicCapture = [h \in Healers |-> FALSE]
  /\ \E k \in 0..MaxQueueSize :
        /\ capacity = [h \in Healers |-> IF h = PoolHealer THEN MaxQueueSize ELSE 0]
        /\ errorQueue = [h \in Healers |->
                           IF h = PoolHealer THEN [i \in 1..k |-> i] ELSE <<>>]
        /\ nextId = k + 1
  /\ poolState = [h \in Healers |-> IF h = PoolHealer THEN "running" ELSE "new"]
  /\ droppedCount = [h \in Healers |-> 0]
  /\ mu = [h \in Healers |-> Nil]
  /\ evicted = [h \in Healers |-> {}]
  /\ rejected = [h \in Healers |-> {}]
  /\ dequeued = [h \in Healers |-> <<>>]
  /\ sequential = TRUE
  /\ IdleThreads
  /\ \E n \in 1..MaxPipelineAttempts :
        cfg = [MaxAttempts |-> n, InitialDelay |-> 1, MaxDelay |-> 30,
               BackoffFactor |-> <<2, 1>>]
  /\ operation = "process-event"
  /\ rpc = "done"
  /\ attempt = 1
  /\ delay = 1
  /\ lastErr = NoErr
  /\ rresult = Pending
  /\ outcomes = <<>>
  /\ waits = <<>>
  /\ succeedsAt = 0
  /\ ctxDone = FALSE
  /\ parked = FALSE
  /\ wake = "none"
  /\ \E th \in Thresholds : cbConfig = [FailureThreshold |-> th, RecoveryTimeout |-> 1]
  /\ BreakerFresh
  /\ workerCount = 1
  /\ wpWorkers = Copies(NewWorker, 1)
  /\ wpCtxDone = FALSE
  /\ wpMu = Nil
  /\ wgCount = 1
  /\ doneClosed = FALSE
  /\ orphans = EmptyBag
  /\ kpc = [t \in Threads |-> "idle"]
  /\ poolLast = [op |-> "Start", did |-> "started", err |-> "nil"]
  /\ poolCalls = 1
  /\ lateDequeue = FALSE
  /\ doubleClose = FALSE
  /\ ppc = "idle"
  /\ fix = NilFix
  /\ gattempt = 0
  /\ status = [e \in EventIds |-> "queued"]
  /\ aiOn \in BOOLEAN
  /\ gitOn \in BOOLEAN
  /\ PointerUntouched
  /\ ConfigsAsBuilt
  /\ NoStatsCall
  /\ NoPullRequests
  /\ NoFallbackCall

\* the steps of the worker inside processEvent
PipelineStep ==
  \/ ProcessEvent
  \/ AttemptBegins
  \/ CanExecute(Worker)
  \/ CanExecuteUpgrade(Worker)
  \/ CanExecuteRecheck(Worker)
  \/ AnalyzeBegins
  \/ \E f \in FixResponses : AnalyzeReturns(f, NoErr)
  \/ AnalyzeReturns(NilFix, PhaseError("ai-processing"))
  \/ Remediate
  \/ \E err \in {NoErr, "errA"} : CreatePRReturns(err)
  \/ GitWaitTimer
  \/ GitWaitCancelled
  \/ RecordResult(Worker)
  \/ AttemptReturns
  \/ BackoffTimer
  \/ BackoffCancelled
  \/ \E inPool \in BOOLEAN, o \in WorkerObjects : ProcessEventEnds(inPool, o)

\* the select of the worker's loop takes one of its cases
LoopStep ==
  \/ \E inPool \in BOOLEAN, o \in WorkerObjects : WorkerSeesCancel(inPool, o)
  \/ \E inPool \in BOOLEAN, o \in WorkerObjects : WorkerSeesStop(inPool, o)
  \/ \E inPool \in BOOLEAN, o \in WorkerObjects : WorkerTakesEvent(inPool, o)

NextPipeline ==
  \/ PipelineStep
  \/ LoopStep
  \/ StopOnce(Stopper)
  \/ RecoveryTick

SpecPipeline == InitPipeline /\ [][NextPipeline]_vars

\* Fair scheduling: the worker's goroutine goes on whenever it can, and every
\* collaborator call in flight returns.
FairPipeline == SpecPipeline /\ WF_vars(PipelineStep) /\ WF_vars(LoopStep)

\* One call of GenerateFixWithFallback on a manager of one to three providers
\* whose replies are arbitrary, the context being cancelled at any moment.
InitFallback ==
  /\ NoHealers
  /\ EmptyQueues
  /\ IdleThreads
  /\ RetryIdle
  /\ BreakerIdle
  /\ PoolIdle
  /\ PipelineIdle
  /\ PointerUntouched
  /\ ConfigsAsBuilt
  /\ NoStatsCall
  /\ NoPullRequests
  /\ \E n \in 1..NumProviders, m \in 1..MaxProviderRetries :
        pm = [providers |-> n, maxRetries |-> m]
  /\ fpc = "call"
  /\ provider = 1
  /\ fattempt = 0
  /\ bestResponse = NoResponse
  /\ fresult = NoResult
  /\ fctxDone = FALSE
  /\ calls = [p \in 1..NumProviders |-> 0]
  /\ freply = NoReply
  /\ firstWith = [c \in Confidences |-> 0]

NextFallback ==
  \/ \E reply \in Replies : GenerateFixReturns(reply)
  \/ RetryDelayElapses
  \/ FallbackSeesCancel
  \/ CancelFallback

SpecFallback == InitFallback /\ [][NextFallback]_vars

\* ------------------------------------------------------------------ claims
AllIdle == \A t \in Threads : tpc[t] = "idle"
NoEnqueueInProgress == \A t \in Threads : ~InEnqueue(t)
Enqueued == nextId - 1       \* EnqueueEvent calls begun so far

\* C1: in every reachable state, under any interleaving of EnqueueEvent calls
\* and worker dequeues, the queue holds between 0 and MaxQueueSize events.
C1_OccupancyWithinCapacity ==
  \A h \in Healers : Len(errorQueue[h]) >= 0 /\ Len(errorQueue[h]) <= capacity[h]

\* C1 witness: the overflow path has evicted an event and finds the queue
\* full again, refilled by a concurrent producer.
C1_Witness ==
  \E t \in Threads : tpc[t] = "send" /\ Len(errorQueue[1]) = capacity[1]

\* C2: with no consumer running, N+k sequential EnqueueEvent calls (k > 0) on
\* a queue of capacity N all return true, leave exactly the N most recently
\* enqueued events in enqueue order, and leave GetDroppedCount() = k.
C2_SequentialOverflow ==
  (sequential /\ AllIdle /\ Enqueued > capacity[1]) =>
     /\ errorQueue[1] = [i \in 1..capacity[1] |-> Enqueued - capacity[1] + i]
     /\ GetDroppedCount(1) = Enqueued - capacity[1]
     /\ rejected[1] = {}
     /\ \A t \in Threads : tresult[t] # "false"

\* C2 witness: a sequential run without a consumer evicted at least two events.
C2_Witness ==
  sequential /\ AllIdle /\ Enqueued >= capacity[1] + 2 /\ capacity[1] >= 2

\* C3: whenever no EnqueueEvent call is in progress, GetDroppedCount() equals
\* the number of events evicted by overflow plus the number of EnqueueEvent
\* calls that returned false.
C3_EveryLossCounted ==
  NoEnqueueInProgress =>
     \A h \in Healers :
        GetDroppedCount(h) = Cardinality(evicted[h]) + Cardinality(rejected[h])

\* C4: EnqueueEvent never blocks its caller: a call takes at most four steps
\* of its own (select, Lock, receive, send), and a call in progress can always
\* step, or waits for the lock while its holder, itself inside
\* handleQueueOverflow, can step; this in every worker state.
C4_EnqueueNeverBlocks ==
  /\ \A t \in Threads : tsteps[t] <= 4
  /\ \A h \in Healers : mu[h] # Nil => tpc[mu[h]] \in {"recv", "send", "retry"}
  /\ \A t \in Threads :
       InEnqueue(t) =>
         \/ ENABLED EnqueueStep(t)
         \/ /\ tpc[t] = "lock"
            /\ \E u \in Threads \ {t} :
                 /\ mu[ttarget[t]] = u
                 /\ ENABLED EnqueueStep(u)

\* C4 witness: a producer waits for the lock another producer holds, after
\* the worker pool has stopped.
C4_Witness ==
  \E t, u \in Threads :
     t # u /\ tpc[t] = "lock" /\ mu[1] = u /\ poolState[1] = "stopped"

\* C5: RecoverAndHandle always returns normally to its caller, also when the
\* global healer is replaced or cleared between its reads of the pointer.
C5_RecoverAndHandleReturnsNormally ==
  \A t \in Threads :
     (tpc[t] = "idle" /\ tentry[t] = "suppress") => traised[t] = NoFault

\* C6: HandlePanic re-raises exactly the original fault value, whatever the
\* outcome of the capture attempt.
C6_HandlePanicReraisesOriginal ==
  \A t \in Threads :
     (tpc[t] = "idle" /\ tentry[t] = "rethrow") => traised[t] = tfault[t]

\* Apart from the nil dereference, both hooks end as documented under every
\* capture outcome: HandlePanic raises r, RecoverAndHandle returns.
HooksSoundUnlessCrashed ==
  \A t \in Threads :
     (tpc[t] = "idle" /\ tcapture[t] # "crashed") =>
        /\ tentry[t] = "rethrow" => traised[t] = tfault[t]
        /\ tentry[t] = "suppress" => traised[t] = NoFault

\* C7: with an uncancelled context, a function that fails j-1 times and
\* succeeds on invocation j (1 <= j <= MaxAttempts) makes ExecuteWithRetry
\* return nil after exactly j invocations; no invocation follows a success.
C7_RetrySucceedsOnJ ==
  /\ \A i \in 1..Len(outcomes) : outcomes[i] = NoErr => i = Len(outcomes)
  /\ (rpc = "done" /\ ~ctxDone /\ succeedsAt \in 1..cfg.MaxAttempts) =>
        /\ rresult = NilResult
        /\ Len(outcomes) = succeedsAt

\* C7 witness: two failures, then success on the third invocation.
C7_Witness ==
  /\ rpc = "done" /\ ~ctxDone /\ succeedsAt = 3
  /\ rresult = NilResult /\ Len(outcomes) = 3

\* C8: with an uncancelled context, a function that always fails is invoked
\* exactly MaxAttempts times, and the error returned names the operation and
\* wraps the error of the last invocation.
C8_RetryExhausts ==
  (rpc = "done" /\ ~ctxDone /\ succeedsAt = 0) =>
     /\ Len(outcomes) = cfg.MaxAttempts
     /\ rresult.kind = "failed"
     /\ rresult.op = operation
     /\ rresult.attempts = cfg.MaxAttempts
     /\ rresult.wraps = outcomes[Len(outcomes)]

\* C8 witness: three or more failing attempts whose last error differs from
\* the first.
C8_Witness ==
  /\ rpc = "done" /\ ~ctxDone /\ succeedsAt = 0 /\ cfg.MaxAttempts >= 3
  /\ Len(outcomes) = cfg.MaxAttempts
  /\ outcomes[1] # outcomes[Len(outcomes)]
  /\ rresult.wraps = outcomes[Len(outcomes)]

\* C9: a cancellation that arrives while ExecuteWithRetry waits between two
\* attempts ends the wait; the next step returns the cancellation error, which
\* wraps ctx.Err() and not the last error of fn, and fn is not invoked again.
C9_CancelEndsWait ==
  [][ /\ (rpc = "wait" /\ wake = "none" /\ ~ctxDone /\ ctxDone') =>
           (wake' = "cancel" /\ rpc' = "wait" /\ outcomes' = outcomes)
      /\ (rpc = "wait" /\ wake = "cancel") =>
           /\ outcomes' = outcomes
           /\ rpc' = "done"
           /\ rresult' = Cancelled(operation)
           /\ rresult'.wraps = CtxErr /\ rresult'.wraps # lastErr ]_vars

\* C9 witness: the call returned the cancellation error from a select that
\* had blocked, with attempts still left.
C9_Witness ==
  /\ rpc = "done" /\ rresult = Cancelled(operation) /\ parked
  /\ Len(outcomes) < cfg.MaxAttempts /\ Len(outcomes) >= 2

\* the wait sequence as the loop produces it: InitialDelay first, then
\* min(previous * BackoffFactor, MaxDelay); one wait per failed attempt but
\* the last; from the second wait on never above MaxDelay
WaitsFollowBackoff ==
  /\ Len(waits) <= cfg.MaxAttempts - 1
  /\ Len(waits) <= Len(outcomes)
  /\ Len(outcomes) <= Len(waits) + 1
  /\ (rpc = "done" /\ rresult.kind # "cancelled") => Len(waits) = Len(outcomes) - 1
  /\ \A i \in 1..Len(waits) :
       waits[i] = IF i = 1 THEN cfg.InitialDelay
                  ELSE Min(TruncDiv(waits[i-1] * cfg.BackoffFactor[1],
                                    cfg.BackoffFactor[2]), cfg.MaxDelay)
  /\ \A i \in 2..Len(waits) : waits[i] <= cfg.MaxDelay

WaitsNonDecreasing == \A i \in 2..Len(waits) : waits[i-1] <= waits[i]
FactorAtLeastOne == cfg.BackoffFactor[1] >= cfg.BackoffFactor[2]

\* C10 as stated: waits happen only between attempts, follow the backoff
\* rule, and are non-decreasing whenever BackoffFactor >= 1.
C10_WaitsAsStated ==
  /\ WaitsFollowBackoff
  /\ FactorAtLeastOne => WaitsNonDecreasing

\* C10 amended: waits happen only between attempts, follow the backoff rule,
\* and are non-decreasing whenever BackoffFactor >= 1 and
\* 0 <= InitialDelay <= MaxDelay.
C10_WaitsAmended ==
  /\ WaitsFollowBackoff
  /\ (FactorAtLeastOne /\ 0 <= cfg.InitialDelay /\ cfg.InitialDelay <= cfg.MaxDelay)
       => WaitsNonDecreasing

\* C10 witness: the waits grow and then reach the cap MaxDelay.
C10_Witness ==
  /\ FactorAtLeastOne /\ 0 <= cfg.InitialDelay /\ cfg.InitialDelay <= cfg.MaxDelay
  /\ Len(waits) >= 3
  /\ waits[1] < waits[2] /\ waits[3] = cfg.MaxDelay
  /\ TruncDiv(waits[2] * cfg.BackoffFactor[1], cfg.BackoffFactor[2]) > cfg.MaxDelay

\* ---------------------------------------------------- claims: circuit breaker
\* the caller's result is recorded in this step
Records(t) == cpc[t] = "record" /\ cpc'[t] = "idle"
Failed(t) == cerr[t] # NoErr
\* the caller's Execute returns the circuit-open error in this step
Rejected(t) == cpc[t] # "idle" /\ cpc'[t] = "idle" /\ cresult'[t] = OpenError

\* C11: the breaker starts closed with counter 0; a failure recorded in the
\* closed state adds exactly one to the counter and a success recorded there
\* resets it to 0; closed -> open happens exactly when a recorded failure
\* brings the counter to FailureThreshold, after at least that many failures
\* with no success recorded in between.
C11_ClosedCounting ==
  /\ cbState = Closed /\ failures = 0
  /\ [][/\ \A t \in Threads :
            (Records(t) /\ cbState = Closed) =>
               /\ Failed(t) => failures' = failures + 1
               /\ ~Failed(t) => failures' = 0 /\ cbState' = Closed
               /\ (Failed(t) /\ failures + 1 >= cbConfig.FailureThreshold)
                     => cbState' = Open
        /\ (cbState = Closed /\ cbState' = Open) =>
               /\ \E t \in Threads : Records(t) /\ Failed(t)
               /\ failures' = cbConfig.FailureThreshold
               /\ streak' >= cbConfig.FailureThreshold]_vars

C11_Witness ==
  /\ cbConfig.FailureThreshold = 2
  /\ cbLast = [from |-> Closed, to |-> Open, cause |-> "failure"]
  /\ failures = 2
  /\ executes >= 3
  /\ \A t \in Threads : cpc[t] = "idle"

\* C12: while the breaker is open and no more than RecoveryTimeout has passed
\* since the last recorded failure, a caller inside canExecute is rejected with
\* the circuit-open error, its fn is not invoked, and state, failure counter
\* and last-failure time stay as they are.
C12_OpenRejects ==
  [][\A t \in Threads :
       (/\ cpc[t] \in {"canExecute", "upgrade", "recheck"}
        /\ cpc'[t] # cpc[t]
        /\ cbState = Open
        /\ now - lastFailTime <= cbConfig.RecoveryTimeout) =>
          /\ cpc'[t] # "fn"
          /\ cpc[t] # "upgrade" => cpc'[t] = "idle" /\ cresult'[t] = OpenError
          /\ cerr'[t] = NotInvoked
          /\ cbState' = cbState
          /\ failures' = failures
          /\ lastFailTime' = lastFailTime]_vars

C12_Witness ==
  \E t \in Threads :
     /\ cresult[t] = OpenError
     /\ cpc[t] = "idle"
     /\ cbState = Open
     /\ now - lastFailTime <= cbConfig.RecoveryTimeout

\* C13: after the recovery timeout at most one call is let through by the
\* half-open breaker until its result is recorded.
C13_SingleProbe == ~everReset => Cardinality(probes) <= 1

\* C14: a result recorded in the half-open state decides the next state: a
\* success closes the breaker with counter 0; a failure reopens it with the
\* failure time set to now, so that RecoveryTimeout has to pass again.
C14_ProbeDecides ==
  [][\A t \in Threads :
       (Records(t) /\ cbState = HalfOpen) =>
          IF Failed(t)
            THEN /\ cbState' = Open
                 /\ lastFailTime' = now
                 /\ now' - lastFailTime' <= cbConfig.RecoveryTimeout
            ELSE /\ cbState' = Closed
                 /\ failures' = 0]_vars

C14_Witness ==
  /\ cbLast = [from |-> HalfOpen, to |-> Closed, cause |-> "success"]
  /\ cbState = Closed
  /\ failures = 0

\* the four transitions of the breaker
BreakerEdges ==
  {<<Closed, Open>>, <<Open, HalfOpen>>, <<HalfOpen, Closed>>, <<HalfOpen, Open>>}

\* C15 as stated: under any interleaving of Execute calls and Reset the state
\* changes only along the four transitions.
C15_OnlyFourEdges ==
  [][cbState' # cbState => <<cbState, cbState'>> \in BreakerEdges]_vars

\* C15 amended: Execute changes the state only along the four transitions,
\* each for its own cause; every other change is a Reset, which goes to closed
\* with counter 0.
C15_OnlyFourEdgesOrReset ==
  [][cbState' # cbState =>
       /\ cbLast'.from = cbState /\ cbLast'.to = cbState'
       /\ \/ cbLast'.cause = "reset" /\ cbState' = Closed /\ failures' = 0
          \/ /\ <<cbState, cbState'>> = <<Closed, Open>>
             /\ cbLast'.cause = "failure"
          \/ /\ <<cbState, cbState'>> = <<Open, HalfOpen>>
             /\ cbLast'.cause = "timeout"
             /\ now - lastFailTime > cbConfig.RecoveryTimeout
          \/ /\ <<cbState, cbState'>> = <<HalfOpen, Closed>>
             /\ cbLast'.cause = "success"
          \/ /\ <<cbState, cbState'>> = <<HalfOpen, Open>>
             /\ cbLast'.cause = "failure"]_vars

C15_Witness ==
  /\ cbLast = [from |-> HalfOpen, to |-> Open, cause |-> "failure"]
  /\ \E t \in Threads : cpc[t] \in {"fn", "record"}

\* C16: under concurrent Execute calls alone (Reset is never called), a call
\* that returns the circuit-open error without invoking fn was rejected while
\* the breaker was open.
C16_RejectedOnlyWhenOpen ==
  [][\A t \in Threads :
       (Rejected(t) /\ ~everReset) => cbState = Open]_vars

\* ------------------------------------------------------- claims: worker pool
\* a Start call runs and returns in this step
StartReturns == poolCalls' = poolCalls + 1 /\ poolLast'.op = "Start" /\ wpMu' = Nil
\* a Stop call returns in this step: at once, or when its wait is over
StopReturns ==
  \/ poolCalls' = poolCalls + 1 /\ poolLast'.op = "Stop" /\ wpMu' = Nil
  \/ \E t \in Threads : kpc[t] = "stopWait" /\ kpc'[t] = "idle"

\* C17: a Start on a pool that is not running spawns exactly WorkerCount worker
\* loops, after which GetWorkerCount() = WorkerCount and IsRunning(); a Start
\* on a running pool spawns nothing and changes nothing.
C17_StartSpawnsWorkerCount ==
  [][StartReturns =>
          /\ poolLast'.err = "nil"
          /\ orphans' = orphans
          /\ IF BagCardinality(wpWorkers) = 0
               THEN /\ BagToSet(wpWorkers') = {NewWorker}
                    /\ BagCardinality(wpWorkers') = workerCount
                    /\ wgCount' = wgCount + workerCount
                    /\ BagCardinality(wpWorkers') > 0
               ELSE /\ wpWorkers' = wpWorkers
                    /\ wgCount' = wgCount]_vars

C17_Witness ==
     /\ poolLast = [op |-> "Start", did |-> "alreadyStarted", err |-> "nil"]
     /\ workerCount = 2
     /\ GetWorkerCount = workerCount
     /\ IsRunning
     /\ wgCount = workerCount

\* C18: every Stop returns nil and leaves IsRunning() false and
\* GetWorkerCount() 0; a Stop on a stopped pool changes nothing; no stop
\* channel is ever closed twice.
C18_StopIdempotent ==
  /\ [](~doubleClose)
  /\ [][StopReturns =>
             /\ poolLast'.err = "nil"
             /\ BagCardinality(wpWorkers') = 0
             /\ BagCardinality(wpWorkers) = 0 =>
                   UNCHANGED <<wpWorkers, wpCtxDone, wpMu, wgCount, doneClosed,
                               orphans, errorQueue, poolState>>]_vars

C18_Witness ==
     /\ poolLast = [op |-> "Stop", did |-> "alreadyStopped", err |-> "nil"]
     /\ poolState[PoolHealer] = "stopped"
     /\ ~IsRunning
     /\ GetWorkerCount = 0

\* C19: Stop never blocks for good: a Stop that waits for its workers can
\* always go on (the timer fires even when a worker never exits); wp.mu, for
\* which other Start and Stop calls wait, is held only by such a Stop; and
\* when the wait is over the worker set is cleared and nil is returned.
C19_StopTerminates ==
  /\ [](/\ \A t \in Threads :
             kpc[t] = "stopWait" => ENABLED (StopGraceful(t) \/ StopTimeout(t))
        /\ wpMu # Nil => kpc[wpMu] = "stopWait")
  /\ [][\A t \in Threads :
          (kpc[t] = "stopWait" /\ kpc'[t] # "stopWait") =>
             /\ kpc'[t] = "idle"
             /\ poolLast' \in {[op |-> "Stop", did |-> d, err |-> "nil"] :
                                 d \in {"stopped", "timedOut"}}
             /\ BagCardinality(wpWorkers') = 0
             /\ wpMu' = Nil]_vars

C19_Witness ==
  /\ poolLast = [op |-> "Stop", did |-> "timedOut", err |-> "nil"]
  /\ wpMu = Nil
  /\ GetWorkerCount = 0
  /\ wgCount > 0
  /\ \E o \in BagToSet(orphans) : o.pc = "processing"

\* C20: no worker dequeues an event while its stop signal (the cancelled
\* context or its closed stop channel) is ready.
C20_NoDequeueAfterStop == ~lateDequeue

\* the worker loops that have not returned, in the pool or dropped from it
LoopsRunning == Live(wpWorkers) (+) orphans
\* the last call that returned is a Stop, and it took path did
StopReturnedBy(did) == poolLast.op = "Stop" /\ poolLast.did = did /\ wpMu = Nil

\* C21 (as stated): when Stop has returned, whichever path it took, no worker
\* loop is still running and no event is dequeued from then on.
C21_NoWorkerAfterStop ==
  /\ []((\E d \in {"stopped", "timedOut", "alreadyStopped"} : StopReturnedBy(d))
          => LoopsRunning = EmptyBag)
  /\ [][(\E d \in {"stopped", "timedOut", "alreadyStopped"} : StopReturnedBy(d))
          => dequeued' = dequeued]_vars

\* C21 (amended): when Stop has returned because every worker loop exited
\* before the 30 s timer fired, no worker loop is running and no event is
\* dequeued until the pool is started again.
C21_NoWorkerAfterGracefulStop ==
  /\ [](StopReturnedBy("stopped") =>
          /\ LoopsRunning = EmptyBag
          /\ wgCount = 0
          /\ ~IsRunning)
  /\ [][StopReturnedBy("stopped") => dequeued' = dequeued]_vars

C21_Witness ==
  /\ StopReturnedBy("stopped")
  /\ Len(dequeued[PoolHealer]) > 0
  /\ Len(errorQueue[PoolHealer]) > 0
  /\ workerCount = 2

\* ------------------------------------------------------ claims: the pipeline
\* C22: once the pool's context is cancelled, a worker waiting in a retry
\* backoff (around the pipeline or around CreatePullRequest) leaves the wait
\* without a further attempt, and no attempt counter of an event in progress
\* grows again; under fair scheduling, with every collaborator call
\* returning, every worker loop has eventually returned.
C22_CancelReachesWorkers ==
  /\ [][(wpCtxDone /\ ppc \in {"backoff", "gitWait"}) =>
           /\ attempt' = attempt
           /\ gattempt' = gattempt
           /\ ppc' \in {ppc, "finish", "execute"}
           /\ ppc' = "execute" => cerr'[Worker] # NoErr]_vars
  /\ (wpCtxDone ~> (LoopsRunning = EmptyBag))

C22_Witness ==
  /\ wpCtxDone
  /\ rresult = Cancelled(operation)
  /\ attempt < cfg.MaxAttempts
  /\ status[CurrentEvent] = "failed"
  /\ LoopsRunning = EmptyBag

\* C23: the status of an event changes only from queued to processing and
\* from processing to completed or failed; an event is queued until a worker
\* has dequeued it, processing while its retried pipeline runs, and a
\* completed or failed event keeps its status.
StatusEdges ==
  {<<"queued", "processing">>, <<"processing", "completed">>,
   <<"processing", "failed">>}
C23_StatusLifecycle ==
  /\ [][\A e \in EventIds :
          status'[e] # status[e] =>
             /\ <<status[e], status'[e]>> \in StatusEdges
             /\ e = CurrentEvent
             /\ status'[e] = "processing" <=> ppc = "idle"]_vars
  /\ [](/\ ppc # "idle" => status[CurrentEvent] = "processing"
        /\ \A i \in 1..Len(errorQueue[PoolHealer]) :
              status[errorQueue[PoolHealer][i]] = "queued"
        /\ \A e \in EventIds :
              status[e] # "queued" =>
                 \E i \in 1..Len(dequeued[PoolHealer]) : dequeued[PoolHealer][i] = e)

C23_Witness ==
  /\ \E e \in EventIds : status[e] = "completed"
  /\ \E e \in EventIds : status[e] = "failed"
  /\ attempt > 1
  /\ ppc = "idle"

\* --------------------------------------- claims: producers and workers
\* where the events of healer 1 are
Queued == {errorQueue[1][i] : i \in 1..Len(errorQueue[1])}
Dequeued == {dequeued[1][i] : i \in 1..Len(dequeued[1])}
InFlight == {tevent[t] : t \in {u \in Threads : InEnqueue(u)}}
Places(e) ==
  (IF e \in Queued THEN 1 ELSE 0) + (IF e \in Dequeued THEN 1 ELSE 0)
    + (IF e \in evicted[1] THEN 1 ELSE 0)

\* C24: every event EnqueueEvent has put into the queue is in exactly one of
\* three places: in the queue (once), evicted by overflow, or dequeued by a
\* worker (once); an event still inside EnqueueEvent or rejected is in none.
C24_AtMostOnce ==
  /\ Cardinality(Queued) = Len(errorQueue[1])
  /\ Cardinality(Dequeued) = Len(dequeued[1])
  /\ evicted[1] \cap Dequeued = {}
  /\ \A e \in 1..(nextId - 1) :
        Places(e) = IF e \in InFlight \cup rejected[1] THEN 0 ELSE 1

C24_Witness ==
  /\ ~sequential
  /\ Cardinality(evicted[1]) >= 1
  /\ Len(dequeued[1]) >= 1
  /\ Len(errorQueue[1]) >= 1
  /\ \E t \in Threads : tpc[t] = "send"

\* ------------------------------------------- claims: the pipeline's phases
\* CreatePullRequest is called in this step
CallsCreatePR == ppc' = "createPR" /\ (ppc # "createPR" \/ gattempt' # gattempt)
\* the proposal f is present, valid, non-empty and confident enough
Acceptable(f) ==
  ~f.isNil /\ f.IsValid /\ f.ProposedFix # "" /\ f.Confidence >= ConfidenceThreshold

\* C25: CreatePullRequest is called, and a call of it is in flight or waits
\* for its retry, only with a proposal that is present, valid, non-empty and
\* of confidence at least 0.7.
C25_ConfidenceGate ==
  /\ [][CallsCreatePR => Acceptable(fix) /\ fix' = fix]_vars
  /\ [](ppc \in {"createPR", "gitWait"} => Acceptable(fix))

C25_Witness ==
  /\ ppc = "createPR"
  /\ gattempt = 2
  /\ fix.Confidence = ConfidenceThreshold

\* the error of a failed analyze phase
AiError == PhaseError("ai-processing")

\* C26: within one attempt, CreatePullRequest is called only after the
\* analysis call of that attempt returned a response without error, the
\* remediate phase begins only when the analyze phase is over without error,
\* and an attempt whose analyze phase failed ends with that error without
\* running the remediate phase.
C26_AnalysisBeforeRemediation ==
  /\ [][/\ CallsCreatePR => (aiOn /\ ~fix.isNil)
        /\ (ppc' = "remediate" /\ ppc # "remediate") =>
              \/ ppc = "analyze" /\ ~fix'.isNil
              \/ ppc = "execute" /\ ~aiOn /\ fix'.isNil
        /\ (ppc = "analyze" /\ ppc' # "analyze" /\ fix'.isNil) =>
              /\ ppc' = "execute"
              /\ cpc'[Worker] = "record"
              /\ cerr'[Worker] = AiError]_vars
  /\ []((cerr[Worker] = AiError \/ cresult[Worker] = AiError) =>
          ppc \notin {"analyze", "remediate", "createPR", "gitWait"})

C26_Witness ==
  /\ cresult[Worker] = AiError
  /\ ppc = "backoff"
  /\ gitOn
  /\ cbState = Closed

\* processEvent sets the terminal status of the event in this step
SetsTerminalStatus == ppc = "finish" /\ ppc' = "idle"

\* C27: an event is marked completed exactly when the last attempt made for
\* it returned nil, with remediation run or skipped, and failed otherwise:
\* the last of MaxAttempts attempts returned an error (a pipeline error or the
\* rejection by the open breaker), or the wait after a failed attempt was
\* cancelled.  No attempt follows one that returned nil.
C27_TerminalStatus ==
  /\ [][SetsTerminalStatus =>
          /\ status'[CurrentEvent] \in {"completed", "failed"}
          /\ status'[CurrentEvent] = "completed" <=> cresult[Worker] = NoErr
          /\ status'[CurrentEvent] = "failed" =>
                \/ attempt = cfg.MaxAttempts /\ rresult.kind = "failed"
                \/ attempt < cfg.MaxAttempts /\ rresult.kind = "cancelled" /\ wpCtxDone]_vars
  /\ [](/\ ppc \in {"backoff", "attempt"} /\ attempt > 1 => cresult[Worker] # NoErr
        /\ ppc = "backoff" => cresult[Worker] # NoErr)

C27_Witness ==
  /\ ppc = "idle"
  /\ Len(dequeued[PoolHealer]) = 2
  /\ status[dequeued[PoolHealer][1]] = "failed"
  /\ status[CurrentEvent] = "completed"
  /\ attempt = 2
  /\ ~gitOn

\* cb.Execute has returned the rejection of the open breaker for the first
\* attempt of the event in progress
FirstAttemptRejected ==
  ppc = "execute" /\ cpc[Worker] = "idle" /\ attempt = 1 /\ cresult[Worker] = OpenError

\* C28: when the open breaker rejects the first attempt of an event, the
\* retry loop ends at once: its next step marks the event for failure,
\* without a backoff wait and without a further attempt.
C28_OpenRejectsWholeEvent ==
  [][(FirstAttemptRejected /\ ppc' # ppc) =>
        /\ ppc' = "finish"
        /\ rresult'.kind = "failed"
        /\ attempt' = 1]_vars

\* C29: the queue changes only by a receive, which takes its oldest element
\* (a worker's dequeue, or the eviction of the overflow path), and by a send,
\* which puts the accepted event behind all queued ones; so events leave the
\* queue in the order in which they were accepted.
C29_FifoAmongSurvivors ==
  [][LET q == errorQueue[1]
         q2 == errorQueue'[1]
     IN  q2 # q =>
           \/ /\ Len(q) > 0
              /\ q2 = Tail(q)
              /\ \/ dequeued'[1] = Append(dequeued[1], Head(q)) /\ evicted' = evicted
                 \/ evicted'[1] = evicted[1] \cup {Head(q)} /\ dequeued' = dequeued
           \/ /\ Len(q2) = Len(q) + 1
              /\ SubSeq(q2, 1, Len(q)) = q
              /\ q2[Len(q2)] \in InFlight
              /\ dequeued' = dequeued
              /\ evicted' = evicted]_vars

C29_Witness ==
  /\ ~sequential
  /\ capacity[1] = 2
  /\ Cardinality(evicted[1]) >= 1
  /\ Len(dequeued[1]) >= 2
  /\ Len(errorQueue[1]) >= 1

\* a dequeued event has no terminal status yet
Unfinished ==
  \E i \in 1..Len(dequeued[PoolHealer]) :
     status[dequeued[PoolHealer][i]] \notin {"completed", "failed"}

\* C30: under fair scheduling, with every collaborator call returning, every
\* dequeued event reaches a terminal status; the step that marks an event,
\* failed or completed, leaves the worker's loop running at its select; and
\* unless the pool is stopped, the events still queued are dequeued.
C30_EveryEventTerminates ==
  /\ (Unfinished ~> ~Unfinished)
  /\ [][SetsTerminalStatus =>
          /\ wgCount' = wgCount
          /\ BagCardinality(LoopsRunning') = BagCardinality(LoopsRunning)
          /\ \A o \in BagToSet(LoopsRunning') : o.pc = "select"]_vars
  /\ (ChanHasItem(errorQueue[PoolHealer]) ~>
         (~ChanHasItem(errorQueue[PoolHealer]) \/ wpCtxDone))

C30_Witness ==
  /\ ~wpCtxDone
  /\ ppc = "idle"
  /\ Len(dequeued[PoolHealer]) = 2
  /\ status[dequeued[PoolHealer][1]] = "failed"
  /\ status[dequeued[PoolHealer][2]] = "failed"
  /\ \E o \in BagToSet(LoopsRunning) : o.pc = "select"

\* GetGlobalHealer(): return globalHealer
GetGlobalHealer == globalHealer

\* the healer built by the latest Initialize (healers are numbered as created)
LastInitialized ==
  IF \E h \in Healers : created[h]
    THEN CHOOSE h \in Healers : created[h] /\ \A g \in Healers : created[g] => g <= h
    ELSE Nil

\* t is inside a capture hook whose recover() came after the last write to
\* the global pointer
CapturedAfterInstall(t) == tfresh[t] /\ tentry[t] \in {"rethrow", "suppress"}

Range(q) == {q[i] : i \in 1..Len(q)}

\* C31: the healer of the latest Initialize is the global one until the
\* pointer is written again, and a fault recovered by HandlePanic or
\* RecoverAndHandle after the last write is offered to the queue of the
\* healer then installed and to no other queue.
C31_LastInstalledWins ==
  /\ [](~overridden => GetGlobalHealer = LastInitialized)
  /\ [](\A t \in Threads :
          (CapturedAfterInstall(t) /\ InEnqueue(t)) =>
             /\ ttarget[t] = GetGlobalHealer
             /\ ~overridden => ttarget[t] = LastInitialized)
  /\ [][\A t \in Threads, h \in Healers :
          (/\ CapturedAfterInstall(t)
           /\ InEnqueue(t)
           /\ tevent[t] \in Range(errorQueue'[h]) \ Range(errorQueue[h]))
          => h = GetGlobalHealer]_vars

\* a second healer was initialized after the first had captured a fault, and
\* a fault recovered after that was accepted by the second healer's queue
C31_Witness ==
  /\ created[1] /\ created[2]
  /\ ~overridden
  /\ GetGlobalHealer = 2
  /\ Len(errorQueue[1]) >= 1
  /\ Len(errorQueue[2]) >= 1
  /\ CapturedAfterInstall(Hooker)
  /\ tpc[Hooker] = "idle"
  /\ tcapture[Hooker] = "accepted"

\* the value a healer holds for a configured number: the default for 0
Effective(given, default) == IF given = 0 THEN default ELSE given

\* the last call of Initialize returned an error
InitializeFailed == initResult.err # NoErr

\* C32: every healer returned by Initialize has queue capacity, worker count
\* and retry attempts of at least 1, a 0 having been replaced by the default
\* 100, 2 or 3 before validation; a call that fails validation returns an
\* error and no healer, creates nothing and leaves the global healer as it was.
C32_ValidatedAtConstruction ==
  /\ [](\A h \in Healers : created[h] =>
          /\ capacity[h] >= 1 /\ capacity[h] = hconfig[h].MaxQueueSize
          /\ hconfig[h].WorkerCount >= 1
          /\ hconfig[h].RetryAttempts >= 1)
  /\ [](LET h == initResult.healer
            g == initResult.given
        IN  IF InitializeFailed
              THEN h = Nil
              ELSE h # Nil =>
                     /\ created[h]
                     /\ hconfig[h].MaxQueueSize = Effective(g.MaxQueueSize, 100)
                     /\ hconfig[h].WorkerCount = Effective(g.WorkerCount, 2)
                     /\ hconfig[h].RetryAttempts = Effective(g.RetryAttempts, 3))
  /\ [][(initResult' # initResult /\ InitializeFailed')
          => UNCHANGED <<globalHealer, created, capacity, hconfig, panicCapture>>]_vars

\* a healer was built from a configuration of zeros, and a later call with
\* a negative worker count failed while that healer stayed the global one
C32_Witness ==
  /\ created[1] /\ ~created[2]
  /\ capacity[1] = 100
  /\ hconfig[1].WorkerCount = 2
  /\ hconfig[1].RetryAttempts = 3
  /\ InitializeFailed
  /\ initResult.given.WorkerCount = -1
  /\ GetGlobalHealer = 1

\* C33: the map returned by GetQueueStats satisfies queue_length +
\* queue_available = queue_capacity and 0 <= queue_length <= queue_capacity,
\* also when producers and workers change the queue during the call.
C33_StatsConsistent ==
  spc = "done" =>
    /\ stats.queue_length + stats.queue_available = stats.queue_capacity
    /\ 0 <= stats.queue_length
    /\ stats.queue_length <= stats.queue_capacity

\* C34: EnqueueEvent removes a queued event only when the queue is at full
\* capacity at the moment of the removal; when a worker has freed a slot in
\* the meantime, the new event is appended and nothing is dropped.
C34_EvictOnlyWhenFull ==
  [][\A h \in Healers :
       evicted'[h] # evicted[h] => Len(errorQueue[h]) = capacity[h]]_vars

\* C35: in every reachable state of the breaker, under any interleaving of
\* Execute calls and Reset, the state is closed exactly when the failure
\* counter is below FailureThreshold; an open or half-open breaker has a
\* counter of at least FailureThreshold.
C35_ClosedIffBelowThreshold ==
  (GetState = Closed) <=> (GetFailureCount < cbConfig.FailureThreshold)

\* after a Reset the breaker opened again and has moved on to half-open
\* while a caller let through earlier is still inside fn
C35_Witness ==
  /\ everReset
  /\ GetState = HalfOpen
  /\ GetFailureCount >= cbConfig.FailureThreshold
  /\ \E t \in Threads : cpc[t] = "record"

\* a step of the worker that invokes CreatePullRequest
InvokesCreatePR == ppc' = "createPR" /\ ppc \in {"remediate", "gitWait"}

\* a step of the worker that calls GenerateFixWithFallback
InvokesAnalysis == ppc' = "analyze" /\ ppc # "analyze"

\* C36: once a CreatePullRequest call for an event has returned success, no
\* further CreatePullRequest call and no further analysis call is made for
\* that event, and the status the event ends with is "completed".
C36_AtMostOnePullRequest ==
  /\ [][prCreated => ~InvokesCreatePR /\ ~InvokesAnalysis]_vars
  /\ [][(prCreated /\ SetsTerminalStatus) => status'[CurrentEvent] = "completed"]_vars
  /\ [](prCreated => ppc \in {"execute", "finish"})

\* a second attempt of the pipeline created the pull request after the
\* first attempt had failed, and the event is about to be marked
C36_Witness ==
  /\ prCreated
  /\ attempt > 1
  /\ ppc = "finish"
  /\ rresult = NilResult

\* Invocations of CreatePullRequest for the event in hand that the state
\* accounts for (a lower bound on their number): those of the retry loop in
\* progress inside processEventWithGit, and one when the error of the last
\* failed attempt is that of the git phase, which is returned only after
\* CreatePullRequest has been invoked.
CreatePRCallsSeen ==
  (IF ppc \in {"createPR", "gitWait"} THEN gattempt ELSE 0)
  + (IF ppc # "idle" /\ lastErr = PhaseError("git-processing") THEN 1 ELSE 0)

\* C37: for a single event, CreatePullRequest is invoked at most
\* RetryAttempts (the retry executor's MaxAttempts) times in total.
C37_CreatePRWithinRetryAttempts == CreatePRCallsSeen <= cfg.MaxAttempts

\* the last call on the pool to return was a Start that started the workers,
\* and no Start or Stop is in progress
StartedLast ==
  /\ poolLast.op = "Start"
  /\ poolLast.did = "started"
  /\ wpMu = Nil

\* C38: the pool can be restarted: after a Start that started the workers,
\* also one that follows a Stop, IsRunning() is true and WorkerCount worker
\* loops are live at their select or processing an event, until the next Stop.
C38_RestartRevivesPool ==
  StartedLast =>
    /\ IsRunning
    /\ BagCardinality(Live(wpWorkers)) = workerCount

\* a healer is registered globally and InstallPanicHandler was called on it
HandlerInstalled == globalHealer # Nil /\ panicCapture[globalHealer]

\* t is inside HandlePanic or RecoverAndHandle and has offered nothing to a
\* queue: it is at the hook's checks, or has passed them without a capture
NothingOffered(t) ==
  \/ tpc[t] \in HookPcs
  \/ tpc[t] # "idle" /\ tcapture[t] \in {"noHealer", "noHandler"}

\* what the hook's caller is to see: panic(r) again from HandlePanic, a
\* normal return from RecoverAndHandle
HookOutcome(t) == IF tentry[t] = "rethrow" THEN tfault[t] ELSE NoFault

\* C39: a fault recovered by HandlePanic or RecoverAndHandle is offered to a
\* queue only while a healer is registered globally on which
\* InstallPanicHandler was called; a hook that offers nothing (Initialize
\* alone, RestorePanicHandler, no healer) still ends as documented:
\* HandlePanic re-raises the fault, RecoverAndHandle returns normally.
C39_CaptureNeedsInstalledHandler ==
  /\ [][\A t \in Threads :
          (tpc[t] \in HookPcs /\ tpc'[t] \in EnqPcs) =>
             /\ HandlerInstalled
             /\ ttarget'[t] = globalHealer]_vars
  /\ [][\A t \in Threads :
          (NothingOffered(t) /\ tpc'[t] = "idle") =>
             traised'[t] = HookOutcome(t)]_vars

\* a response with a non-empty proposed fix, marked valid, of confidence 0.3
\* or more
FullyValid(r) == r.ProposedFix # "" /\ r.IsValid /\ r.Confidence >= 3

\* the confidences of the responses received so far
Received == {c \in Confidences : firstWith[c] # 0}

Highest(S) == CHOOSE c \in S : \A d \in S : d <= c

\* the last GenerateFix call returned a fully valid response
ValidReply == ~freply.err /\ freply.id # 0 /\ FullyValid(freply)

\* C40: GenerateFixWithFallback queries the providers in configured order,
\* each at most maxRetries times; a fully valid response is returned at once
\* and nothing is queried after it; with an uncancelled context and no fully
\* valid response, the call returns the response of highest confidence among
\* all received, the earliest received of those, and returns an error exactly
\* when no provider returned a response.
C40_FallbackReturnsBest ==
  /\ [](\A p \in 1..NumProviders :
          /\ calls[p] <= pm.maxRetries
          /\ p > pm.providers => calls[p] = 0)
  /\ [][\A p \in 1..NumProviders :
          calls'[p] # calls[p] =>
             /\ fpc # "done"
             /\ \A q \in 1..NumProviders : q > p => calls[q] = 0]_vars
  /\ [](ValidReply =>
          /\ fpc = "done"
          /\ fresult.err = NoErr
          /\ fresult.response = ResponseOf(freply, freply.id))
  /\ []((fpc = "done" /\ ~fctxDone /\ ~ValidReply) =>
          IF Received = {}
            THEN fresult.err # NoErr /\ fresult.response = NoResponse
            ELSE /\ fresult.err = NoErr
                 /\ fresult.response.Confidence = Highest(Received)
                 /\ fresult.response.id = firstWith[Highest(Received)])

\* three providers, no fully valid response: the first and the last provider
\* both answered with the highest confidence received, and the response of
\* the first was returned although its fix is empty
C40_Witness ==
  /\ fpc = "done"
  /\ ~fctxDone
  /\ pm.providers = NumProviders
  /\ ~ValidReply
  /\ ~freply.err
  /\ fresult.err = NoErr
  /\ fresult.response.id <= pm.maxRetries
  /\ freply.id > 2 * pm.maxRetries
  /\ freply.Confidence = fresult.response.Confidence
  /\ freply.Confidence = 5
  /\ fresult.response.ProposedFix = ""
  /\ firstWith[3] # 0

====
